---- MODULE Spec2Model ----
(***************************************************************************)
(* A model of the natural-language query pipeline of the carbon dashboard: *)
(* SafeCodeExecutor (agent/code_executor.py) and QueryAnalyzer             *)
(* (agent/query_analyzer.py).                                              *)
(*                                                                         *)
(* Program text is modelled by its lines.  A line is a comment, a line     *)
(* that does not parse, or a statement given by its syntax tree; the tree  *)
(* ast.parse builds is the module of the statement lines.  The characters  *)
(* of a line are modelled by its tokens (Render).  Korean text is written  *)
(* one romanised string per syllable, because a TLA+ string is ASCII.      *)
(***************************************************************************)
EXTENDS Integers, Sequences, FiniteSets, TLC

VARIABLES
    builtins_is_module,  \* whether the global __builtins__ of code_executor is the module (run as a script) or its dict (imported)
    execution_history,   \* SafeCodeExecutor.execution_history
    ret,                 \* what the last call of execute_code returned
    calls,               \* number of execute_code calls so far (also the clock of the timestamps)
    appended,            \* number of records ever appended by _save_execution_history
    ran,                 \* number of statements the last call of execute_code started to execute
    verdict,             \* what validate_code returned in the last call of execute_code
    last_code,           \* the program of the last call of execute_code
    last_context,        \* the bindings of the last call of execute_code
    arrived,             \* the records appended since the history was last empty, in arrival order
    workload,            \* the programs a ledger run executes, in turn
    question,            \* the question asked
    stage,               \* how far the question has come: asked, analyzed, generated, executed
    intent,              \* what analyze_query returned for the question
    analysis_code,       \* what generate_analysis_code returned for the intent
    unified_data,        \* the unified table the question is asked over
    needs_viz,           \* what needs_visualization returned for the question, and the pattern families it searched
    datasets,            \* DataPreprocessor.datasets: the raw tables, in the order they were loaded
    metadata,            \* DataPreprocessor.metadata
    preprocessor_unified_data, \* DataPreprocessor.unified_data: <<>> for None, else <<the records>>
    loaded,              \* the raw tables as they were loaded
    standardize_runs,    \* number of standardize_data calls so far
    first_unified_data,  \* what the first call of standardize_data returned
    files,               \* the CSV files of the data folder, in the order of the glob
    analyze_runs,        \* number of analyze_all_datasets calls so far
    failures,            \* the steps of ask that raise in this call
    analysis_result,     \* what _perform_data_analysis returned
    fallback_calls,      \* number of _fallback_analysis calls so far
    visualization,       \* the visualization of ask: "" for None
    reply,               \* how ask left: the pair it returned, or the exception it raised
    threads,             \* the threads inside execute_code: where each is, and what it holds
    heap,                \* the list objects that were bound to execution_history, in the order they were made
    history_ref,         \* the list object execution_history is bound to: its place in heap
    _instance,           \* EnhancedCarbonRAGAgent._instance: 0 for None, else the object
    _initialized,        \* whether the instance has the attribute _initialized
    allocated,           \* number of objects made by object.__new__
    constructed,         \* what each EnhancedCarbonRAGAgent() gave: the object, or 0 when it raised
    loads,               \* number of _load_and_process_data calls so far
    executors            \* number of SafeCodeExecutor objects made so far

vars == <<builtins_is_module, execution_history, ret, calls, appended, ran, verdict, last_code, last_context, arrived, workload,
          question, stage, intent, analysis_code, unified_data, needs_viz,
          datasets, metadata, preprocessor_unified_data, loaded, standardize_runs,
          first_unified_data, files, analyze_runs, failures, analysis_result, fallback_calls, visualization, reply,
          threads, heap, history_ref, _instance, _initialized, allocated, constructed, loads, executors>>

pipeline_vars == <<question, stage, intent, analysis_code, unified_data>>

(* The variables of the parts of the agent around the pipeline *)
preprocessor_vars ==
    <<datasets, metadata, preprocessor_unified_data, loaded, standardize_runs, first_unified_data,
      files, analyze_runs>>

(* The variables of one call of ask, after the intent and the program *)
ask_vars == <<failures, analysis_result, fallback_calls, visualization, reply>>

executor_vars ==
    <<execution_history, ret, calls, appended, ran, verdict, last_code, last_context, arrived>>

agent_vars == <<needs_viz, preprocessor_vars, ask_vars>>

(* The variables of the threads inside the executor, and of the           *)
(* construction of the agent                                               *)
thread_vars == <<threads, heap, history_ref>>

singleton_vars == <<_instance, _initialized, allocated, constructed, loads, executors>>

process_vars == <<thread_vars, singleton_vars>>

----------------------------------------------------------------------------
(* Bounds of the model *)

MaxCalls == 2          \* execute_code calls in a run with freely chosen programs
MaxLedgerCalls == 116  \* execute_code calls in a ledger run

(* SafeCodeExecutor._save_execution_history: the size limit of the history *)
HistoryLimit == 100

----------------------------------------------------------------------------
(* Syntax trees.  Every node has the same shape: kind, id (a name, an      *)
(* attribute, a string constant), val (a number constant), kids.           *)

Node(kind, id, val, kids) == [kind |-> kind, id |-> id, val |-> val, kids |-> kids]

Name(id)          == Node("Name", id, 0, <<>>)
Str(s)            == Node("Str", s, 0, <<>>)
Num(n)            == Node("Num", "", n, <<>>)
Bool(b)           == Node("Bool", "", IF b THEN 1 ELSE 0, <<>>)
ListOf(elts)      == Node("List", "", 0, elts)
Attribute(v, a)   == Node("Attribute", a, 0, <<v>>)
Subscript(v, k)   == Node("Subscript", "", 0, <<v, k>>)
Call(f, args)     == Node("Call", "", 0, <<f>> \o args)
Method(v, m, args) == Call(Attribute(v, m), args)
Compare(l, r)     == Node("Compare", "", 0, <<l, r>>)
Assign(t, v)      == Node("Assign", "", 0, <<Name(t), v>>)
AssignItem(t, k, v) == Node("Assign", "", 0, <<Subscript(Name(t), k), v>>)
ExprStmt(v)       == Node("Expr", "", 0, <<v>>)
Import(m)         == Node("Import", m, 0, <<>>)
Comment(words)    == Node("Comment", "", 0, [i \in 1..Len(words) |-> Str(words[i])])
Garbage           == Node("Garbage", "", 0, <<>>)
Module(stmts)     == Node("Module", "", 0, stmts)

(* ast.iter_child_nodes / ast.walk: breadth-first, a node before its children *)
RECURSIVE Walk(_)
Walk(todo) ==
    IF todo = <<>> THEN <<>>
    ELSE <<Head(todo)>> \o Walk(Tail(todo) \o Head(todo).kids)

(* The characters of one line, as tokens *)
RECURSIVE Render(_)
RECURSIVE RenderAll(_)
RenderAll(nodes) ==
    IF nodes = <<>> THEN <<>> ELSE Render(Head(nodes)) \o RenderAll(Tail(nodes))

Render(node) ==
    CASE node.kind = "Name"      -> <<node.id>>
      [] node.kind = "Str"       -> <<"'", node.id, "'">>
      [] node.kind = "Num"       -> <<ToString(node.val)>>
      [] node.kind = "Bool"      -> <<IF node.val = 1 THEN "True" ELSE "False">>
      [] node.kind = "List"      -> <<"[">> \o RenderAll(node.kids) \o <<"]">>
      [] node.kind = "Attribute" -> Render(node.kids[1]) \o <<".", node.id>>
      [] node.kind = "Subscript" -> Render(node.kids[1]) \o <<"[">> \o Render(node.kids[2]) \o <<"]">>
      [] node.kind = "Call"      -> Render(node.kids[1]) \o <<"(">> \o RenderAll(Tail(node.kids)) \o <<")">>
      [] node.kind = "Compare"   -> Render(node.kids[1]) \o <<"==">> \o Render(node.kids[2])
      [] node.kind = "Assign"    -> Render(node.kids[1]) \o <<"=">> \o Render(node.kids[2])
      [] node.kind = "Expr"      -> Render(node.kids[1])
      [] node.kind = "Import"    -> <<"import", node.id>>
      [] node.kind = "Comment"   -> <<"#">> \o [i \in 1..Len(node.kids) |-> node.kids[i].id]
      [] node.kind = "Garbage"   -> <<"(">>
      [] OTHER                   -> <<>>

(* The program text: the lines one after the other *)
Text(code) == RenderAll(code)

(* ast.parse: comments leave no node; a line that does not parse raises    *)
(* SyntaxError for the whole program.                                      *)
HasSyntaxError(code) == \E i \in 1..Len(code) : code[i].kind = "Garbage"
Statements(code) == SelectSeq(code, LAMBDA line : line.kind \notin {"Comment", "Garbage"})
parse(code) == Module(Statements(code))

----------------------------------------------------------------------------
(* SafeCodeExecutor.__init__ *)

allowed_modules == {"pandas", "numpy", "matplotlib.pyplot", "seaborn", "datetime"}

allowed_builtins ==
    {"len", "sum", "max", "min", "abs", "round", "int", "float", "str",
     "list", "dict", "tuple", "set", "range", "enumerate", "zip",
     "sorted", "reversed", "any", "all", "print"}

forbidden_keywords ==
    {"import", "exec", "eval", "compile", "__import__", "open", "file",
     "input", "raw_input", "reload", "globals", "locals", "vars",
     "dir", "hasattr", "getattr", "setattr", "delattr", "__builtins__"}

----------------------------------------------------------------------------
(* SafeCodeExecutor.validate_code.  A verdict is (safe, message); the      *)
(* message is a tag and the identifier it names.                           *)

Verdict(safe, tag, id) == [safe |-> safe, message |-> <<tag, id>>]

(* Mutant of the loop body: only calls and import statements are checked *)
Violation_calls_only(node) ==
    CASE node.kind = "Import" ->
            <<Verdict(FALSE, "import statement not allowed", "")>>
      [] node.kind = "Call" ->
            IF node.kids[1].kind = "Name" /\ node.kids[1].id \in forbidden_keywords
            THEN <<Verdict(FALSE, "forbidden call", node.kids[1].id)>> ELSE <<>>
      [] OTHER -> <<>>

(* What the loop body returns at one node: <<>> when it returns nothing *)
Violation(node) ==
    CASE node.kind = "Name" ->
            IF node.id \in forbidden_keywords
            THEN <<Verdict(FALSE, "forbidden keyword", node.id)>> ELSE <<>>
      [] node.kind = "Import" ->
            <<Verdict(FALSE, "import statement not allowed", "")>>
      [] node.kind = "Call" ->
            IF node.kids[1].kind = "Name" /\ node.kids[1].id \in forbidden_keywords
            THEN <<Verdict(FALSE, "forbidden call", node.kids[1].id)>> ELSE <<>>
      [] OTHER -> <<>>

RECURSIVE FirstViolation(_)
FirstViolation(nodes) ==
    IF nodes = <<>> THEN <<>>
    ELSE IF Violation(Head(nodes)) # <<>> THEN Violation(Head(nodes))
    ELSE FirstViolation(Tail(nodes))

validate_code(code) ==
    IF HasSyntaxError(code) THEN Verdict(FALSE, "syntax error", "")
    ELSE LET found == FirstViolation(Walk(<<parse(code)>>))
         IN IF found # <<>> THEN found[1] ELSE Verdict(TRUE, "code is safe", "")

----------------------------------------------------------------------------
(* Run-time values.  Every value has the same shape: t is its type, rows   *)
(* and cols the records and column labels of a table (or of the table a    *)
(* series, mask or group-by was taken from), keys the group-by columns,    *)
(* s a string or a column label, n a number, nums and strs the elements of *)
(* a list, bits a boolean mask.  ref names the object of the caller that   *)
(* the value is, by the name the caller bound it to; it is "" for a value  *)
(* the program made.                                                       *)

Val(t) == [t |-> t, rows |-> <<>>, cols |-> <<>>, keys |-> <<>>, s |-> "",
           n |-> 0, nums |-> <<>>, strs |-> <<>>, bits |-> <<>>, ref |-> ""]

(* A new object with the content of v *)
New(v) == [v EXCEPT !.ref = ""]

None == Val("none")
Table(rows, cols) == [Val("table") EXCEPT !.rows = rows, !.cols = cols]
Record(dataset, year, value) == [dataset |-> dataset, year |-> year, value |-> value]

(* The dataset names of the model, in the order pandas sorts them *)
DatasetNames == <<"allocation", "emission">>
DatasetRank(d) == IF \E i \in 1..Len(DatasetNames) : DatasetNames[i] = d
                  THEN CHOOSE i \in 1..Len(DatasetNames) : DatasetNames[i] = d
                  ELSE 0

Range(seq) == {seq[i] : i \in 1..Len(seq)}

(* The sequences of a sequence, one after the other *)
RECURSIVE Flatten(_)
Flatten(seqs) == IF seqs = <<>> THEN <<>> ELSE Head(seqs) \o Flatten(Tail(seqs))
Last(seq) == seq[Len(seq)]

(* A cell as a sort key *)
Field(row, col) ==
    CASE col = "year"    -> row.year
      [] col = "value"   -> row.value
      [] col = "dataset" -> DatasetRank(row.dataset)
      [] OTHER           -> 0

FieldBase(col) == IF col = "dataset" THEN Len(DatasetNames) + 1 ELSE 10000

RECURSIVE KeyCode(_, _)
KeyCode(row, keys) ==
    IF keys = <<>> THEN 0
    ELSE KeyCode(row, SubSeq(keys, 1, Len(keys) - 1)) * FieldBase(keys[Len(keys)])
         + Field(row, keys[Len(keys)])

(* A stable sort of the indices 1..n by their keys *)
InsertIdx(sorted, i, keys) ==
    SelectSeq(sorted, LAMBDA j : keys[j] <= keys[i]) \o <<i>>
    \o SelectSeq(sorted, LAMBDA j : keys[j] > keys[i])

RECURSIVE SortIdx(_, _)
SortIdx(n, keys) == IF n = 0 THEN <<>> ELSE InsertIdx(SortIdx(n - 1, keys), n, keys)

SortRows(rows, keys) ==
    LET perm == SortIdx(Len(rows), keys)
    IN [p \in 1..Len(rows) |-> rows[perm[p]]]

RECURSIVE SeqSum(_)
SeqSum(xs) == IF xs = <<>> THEN 0 ELSE Head(xs) + SeqSum(Tail(xs))
SeqMax(xs) == CHOOSE x \in Range(xs) : \A y \in Range(xs) : y <= x
SeqMin(xs) == CHOOSE x \in Range(xs) : \A y \in Range(xs) : x <= y

(* The aggregate of a non-empty column; the mean is rounded down to an integer *)
Aggregate(fn, xs) ==
    CASE fn = "sum"  -> SeqSum(xs)
      [] fn = "mean" -> SeqSum(xs) \div Len(xs)
      [] fn = "max"  -> SeqMax(xs)
      [] fn = "min"  -> SeqMin(xs)

(* DataFrame.groupby(keys)[col].fn(): one row per group, groups in key order *)
GroupAggregate(rows, keys, col, fn) ==
    LET code == [i \in 1..Len(rows) |-> KeyCode(rows[i], keys)]
        idx == [i \in 1..Len(rows) |-> i]
        firsts == SelectSeq(idx, LAMBDA i : \A j \in 1..(i - 1) : code[j] # code[i])
        reps == SortRows([p \in 1..Len(firsts) |-> rows[firsts[p]]],
                         [p \in 1..Len(firsts) |-> code[firsts[p]]])
        Members(rep) == SelectSeq(rows, LAMBDA r : KeyCode(r, keys) = KeyCode(rep, keys))
        Column(members) == [i \in 1..Len(members) |-> Field(members[i], col)]
        Keep(rep, c) == c \in Range(keys)
        Out(rep) ==
            LET agg == Aggregate(fn, Column(Members(rep)))
            IN Record(IF Keep(rep, "dataset") THEN rep.dataset ELSE "",
                      IF col = "year" THEN agg ELSE IF Keep(rep, "year") THEN rep.year ELSE 0,
                      IF col = "value" THEN agg ELSE IF Keep(rep, "value") THEN rep.value ELSE 0)
    IN [p \in 1..Len(reps) |-> Out(reps[p])]

(* The attributes a value of the model has *)
MethodsOf(v) ==
    CASE v.t = "table"     -> {"copy", "groupby", "sort_values", "head", "reset_index"}
      [] v.t = "series"    -> {"isin", "sum", "mean", "max", "min"}
      [] v.t = "gbseries"  -> {"sum", "mean", "max", "min"}
      [] v.t = "aggseries" -> {"reset_index"}
      [] OTHER             -> {}

(* An evaluation ends with a value or with a fault (the exception class);  *)
(* out is what it printed, one entry per print call.                       *)
Ok(v, out) == [ok |-> TRUE, fault |-> "", v |-> v, out |-> out]
Fault(name, out) == [ok |-> FALSE, fault |-> name, v |-> None, out |-> out]

(* value[key] *)
GetItem(v, key) ==
    CASE v.t = "table" /\ key.t = "str" ->
            IF key.s \in Range(v.cols)
            THEN Ok([Val("series") EXCEPT !.rows = v.rows, !.cols = v.cols, !.s = key.s], <<>>)
            ELSE Fault("KeyError", <<>>)
      [] v.t = "table" /\ key.t = "mask" ->
            IF Len(key.bits) = Len(v.rows)
            THEN LET idx == SelectSeq([i \in 1..Len(v.rows) |-> i], LAMBDA i : key.bits[i] = 1)
                 IN Ok(Table([p \in 1..Len(idx) |-> v.rows[idx[p]]], v.cols), <<>>)
            ELSE Fault("ValueError", <<>>)
      [] v.t = "groupby" /\ key.t = "str" ->
            IF key.s \in Range(v.cols)
            THEN Ok([v EXCEPT !.t = "gbseries", !.s = key.s], <<>>)
            ELSE Fault("KeyError", <<>>)
      [] v.t \in {"table", "groupby"} -> Fault("KeyError", <<>>)
      [] OTHER -> Fault("TypeError", <<>>)

(* value.method(args) for a method the value has *)
CallMethod(v, m, args) ==
    CASE v.t = "table" /\ m = "copy" -> Ok(New(v), <<>>)
      [] v.t = "table" /\ m = "reset_index" -> Ok(New(v), <<>>)
      [] v.t = "table" /\ m = "groupby" ->
            IF Len(args) # 1 THEN Fault("TypeError", <<>>)
            ELSE LET keys == IF args[1].t = "str" THEN <<args[1].s>> ELSE args[1].strs
                 IN IF args[1].t \in {"str", "list"} /\ Range(keys) \subseteq Range(v.cols)
                    THEN Ok([New(v) EXCEPT !.t = "groupby", !.keys = keys], <<>>)
                    ELSE Fault("KeyError", <<>>)
      [] v.t = "table" /\ m = "sort_values" ->
            IF Len(args) \notin {1, 2} \/ args[1].t # "str" THEN Fault("TypeError", <<>>)
            ELSE IF args[1].s \notin Range(v.cols) THEN Fault("KeyError", <<>>)
            ELSE LET ascending == Len(args) = 1 \/ args[2].n = 1
                     keys == [i \in 1..Len(v.rows) |->
                                 IF ascending THEN Field(v.rows[i], args[1].s)
                                 ELSE 0 - Field(v.rows[i], args[1].s)]
                 IN Ok(Table(SortRows(v.rows, keys), v.cols), <<>>)
      [] v.t = "table" /\ m = "head" ->
            IF Len(args) # 1 \/ args[1].t # "num" THEN Fault("TypeError", <<>>)
            ELSE Ok(Table(SubSeq(v.rows, 1, IF args[1].n < Len(v.rows) THEN args[1].n ELSE Len(v.rows)),
                          v.cols), <<>>)
      [] v.t = "series" /\ m = "isin" ->
            IF Len(args) # 1 \/ args[1].t # "list" THEN Fault("TypeError", <<>>)
            ELSE Ok([Val("mask") EXCEPT !.bits =
                        [i \in 1..Len(v.rows) |->
                            IF v.s = "dataset"
                            THEN (IF v.rows[i].dataset \in Range(args[1].strs) THEN 1 ELSE 0)
                            ELSE (IF Field(v.rows[i], v.s) \in Range(args[1].nums) THEN 1 ELSE 0)]],
                    <<>>)
      [] v.t = "series" /\ m \in {"sum", "mean", "max", "min"} ->
            IF v.rows = <<>> THEN Ok([Val("num") EXCEPT !.n = 0], <<>>)
            ELSE Ok([Val("num") EXCEPT !.n =
                        Aggregate(m, [i \in 1..Len(v.rows) |-> Field(v.rows[i], v.s)])], <<>>)
      [] v.t = "gbseries" ->
            Ok([Val("aggseries") EXCEPT !.rows = GroupAggregate(v.rows, v.keys, v.s, m),
                                        !.cols = IF v.s \in Range(v.keys) THEN v.keys
                                                 ELSE Append(v.keys, v.s),
                                        !.keys = v.keys], <<>>)
      [] v.t = "aggseries" /\ m = "reset_index" -> Ok(Table(v.rows, v.cols), <<>>)
      [] OTHER -> Fault("TypeError", <<>>)

(* left == right *)
IsEqual(l, r) ==
    IF l.t = "series" /\ r.t \in {"num", "str"}
    THEN Ok([Val("mask") EXCEPT !.bits =
                [i \in 1..Len(l.rows) |->
                    IF l.s = "dataset"
                    THEN (IF r.t = "str" /\ l.rows[i].dataset = r.s THEN 1 ELSE 0)
                    ELSE (IF r.t = "num" /\ Field(l.rows[i], l.s) = r.n THEN 1 ELSE 0)]], <<>>)
    ELSE Ok([Val("bool") EXCEPT !.n = IF New(l) = New(r) THEN 1 ELSE 0], <<>>)

(* table[key] = value for a column label and a number or a string: every  *)
(* row of the table gets the value in the column                           *)
SetItem(v, key, value) ==
    IF v.t = "table" /\ key.t = "str" /\ value.t \in {"num", "str"}
    THEN Ok([v EXCEPT
                !.cols = IF key.s \in Range(v.cols) THEN v.cols ELSE Append(v.cols, key.s),
                !.rows = [i \in 1..Len(v.rows) |->
                             CASE key.s = "year" /\ value.t = "num" ->
                                     [v.rows[i] EXCEPT !.year = value.n]
                               [] key.s = "value" /\ value.t = "num" ->
                                     [v.rows[i] EXCEPT !.value = value.n]
                               [] key.s = "dataset" /\ value.t = "str" ->
                                     [v.rows[i] EXCEPT !.dataset = value.s]
                               [] OTHER -> v.rows[i]]], <<>>)
    ELSE Fault("TypeError", <<>>)

(* f(args) for a value f found by name *)
CallFunction(f, args) ==
    CASE f.t = "builtin" /\ f.s = "print" -> Ok(None, <<args>>)
      [] f.t = "builtin" /\ f.s = "len" ->
            IF Len(args) = 1 /\ args[1].t \in {"table", "series", "list"}
            THEN Ok([Val("num") EXCEPT !.n =
                        IF args[1].t = "list" THEN Len(args[1].nums) + Len(args[1].strs)
                        ELSE Len(args[1].rows)], <<>>)
            ELSE Fault("TypeError", <<>>)
      [] f.t = "builtin" /\ f.s \in {"sum", "max", "min"} ->
            IF Len(args) = 1 /\ args[1].t = "list" /\ args[1].strs = <<>>
               /\ (f.s = "sum" \/ args[1].nums # <<>>)
            THEN Ok([Val("num") EXCEPT !.n = Aggregate(f.s, args[1].nums)], <<>>)
            ELSE IF Len(args) = 1 /\ args[1].t = "list" /\ f.s # "sum" /\ args[1].nums = <<>>
            THEN Fault("ValueError", <<>>)
            ELSE Fault("TypeError", <<>>)
      [] f.t = "builtin" -> IF args = <<>> THEN Fault("TypeError", <<>>) ELSE Ok(args[1], <<>>)
      [] OTHER -> Fault("TypeError", <<>>)

(* The result r of an operation, after what its operands printed *)
After(printed, r) == [r EXCEPT !.out = printed \o r.out]

(* [e1, e2, ...] from the values of its elements *)
MakeList(vs) ==
    LET nums == SelectSeq(vs, LAMBDA e : e.t = "num")
        strs == SelectSeq(vs, LAMBDA e : e.t = "str")
    IN [Val("list") EXCEPT !.nums = [i \in 1..Len(nums) |-> nums[i].n],
                           !.strs = [i \in 1..Len(strs) |-> strs[i].s]]

RECURSIVE Eval(_, _)
RECURSIVE EvalAll(_, _)

(* The arguments of a call or the elements of a list, left to right *)
EvalAll(nodes, scope) ==
    IF nodes = <<>> THEN [ok |-> TRUE, fault |-> "", vs |-> <<>>, out |-> <<>>]
    ELSE LET first == Eval(Head(nodes), scope)
         IN IF ~first.ok
            THEN [ok |-> FALSE, fault |-> first.fault, vs |-> <<>>, out |-> first.out]
            ELSE LET rest == EvalAll(Tail(nodes), scope)
                 IN [ok |-> rest.ok, fault |-> rest.fault,
                     vs |-> <<first.v>> \o rest.vs, out |-> first.out \o rest.out]

Eval(node, scope) ==
    CASE node.kind = "Name" ->
            IF node.id \in DOMAIN scope THEN Ok(scope[node.id], <<>>)
            ELSE Fault("NameError", <<>>)
      [] node.kind = "Str"  -> Ok([Val("str") EXCEPT !.s = node.id], <<>>)
      [] node.kind = "Num"  -> Ok([Val("num") EXCEPT !.n = node.val], <<>>)
      [] node.kind = "Bool" -> Ok([Val("bool") EXCEPT !.n = node.val], <<>>)
      [] node.kind = "List" ->
            LET elts == EvalAll(node.kids, scope)
            IN IF ~elts.ok THEN Fault(elts.fault, elts.out)
               ELSE Ok(MakeList(elts.vs), elts.out)
      [] node.kind = "Attribute" ->
            LET obj == Eval(node.kids[1], scope)
            IN IF ~obj.ok THEN obj
               ELSE IF node.id \in MethodsOf(obj.v)
               THEN Ok([Val("method") EXCEPT !.s = node.id], obj.out)
               ELSE Fault("AttributeError", obj.out)
      [] node.kind = "Subscript" ->
            LET obj == Eval(node.kids[1], scope)
            IN IF ~obj.ok THEN obj
               ELSE LET key == Eval(node.kids[2], scope)
                    IN IF ~key.ok THEN Fault(key.fault, obj.out \o key.out)
                       ELSE After(obj.out \o key.out, GetItem(obj.v, key.v))
      [] node.kind = "Compare" ->
            LET left == Eval(node.kids[1], scope)
            IN IF ~left.ok THEN left
               ELSE LET right == Eval(node.kids[2], scope)
                    IN IF ~right.ok THEN Fault(right.fault, left.out \o right.out)
                       ELSE After(left.out \o right.out, IsEqual(left.v, right.v))
      [] node.kind = "Call" /\ node.kids[1].kind = "Attribute" ->
            LET obj == Eval(node.kids[1].kids[1], scope)
            IN IF ~obj.ok THEN obj
               ELSE IF node.kids[1].id \notin MethodsOf(obj.v)
               THEN Fault("AttributeError", obj.out)
               ELSE LET args == EvalAll(Tail(node.kids), scope)
                    IN IF ~args.ok THEN Fault(args.fault, obj.out \o args.out)
                       ELSE After(obj.out \o args.out,
                                  CallMethod(obj.v, node.kids[1].id, args.vs))
      [] node.kind = "Call" ->
            LET f == Eval(node.kids[1], scope)
            IN IF ~f.ok THEN f
               ELSE LET args == EvalAll(Tail(node.kids), scope)
                    IN IF ~args.ok THEN Fault(args.fault, f.out \o args.out)
                       ELSE After(f.out \o args.out, CallFunction(f.v, args.vs))
      [] OTHER -> Fault("TypeError", <<>>)

(* The scope and the objects of the caller after a statement.  A name     *)
(* assigned to is bound to the value; an item assigned to changes the      *)
(* object in place, under every name bound to it.                          *)
Written(scope, name, v) ==
    [m \in DOMAIN scope \cup {name} |->
        IF m = name THEN v
        ELSE IF v.ref # "" /\ scope[m].t = "table" /\ scope[m].ref = v.ref THEN v
        ELSE scope[m]]

Bound(stmt, r, scope) ==
    CASE stmt.kind = "Assign" /\ stmt.kids[1].kind = "Name" -> (stmt.kids[1].id :> r.v) @@ scope
      [] stmt.kind = "Assign" /\ stmt.kids[1].kind = "Subscript" ->
            Written(scope, stmt.kids[1].kids[1].id, r.v)
      [] OTHER -> scope

Shared(stmt, r, shared) ==
    IF stmt.kind = "Assign" /\ stmt.kids[1].kind = "Subscript" /\ r.v.ref \in DOMAIN shared
    THEN [shared EXCEPT ![r.v.ref] = r.v]
    ELSE shared

(* target[key] = value: the value, then the target and the key are         *)
(* evaluated, and the item is set                                          *)
ExecAssignItem(stmt, scope) ==
    LET Set(value, target, key) ==
            IF ~value.ok THEN value
            ELSE IF ~target.ok THEN Fault(target.fault, value.out \o target.out)
            ELSE IF ~key.ok THEN Fault(key.fault, value.out \o target.out \o key.out)
            ELSE After(value.out \o target.out \o key.out, SetItem(target.v, key.v, value.v))
    IN IF stmt.kids[1].kids[1].kind # "Name" THEN Fault("TypeError", <<>>)
       ELSE Set(Eval(stmt.kids[2], scope), Eval(stmt.kids[1].kids[1], scope),
                Eval(stmt.kids[1].kids[2], scope))

(* exec(code, {"__builtins__": {}}, exec_context): the statements in order, *)
(* up to the first fault.  ran counts the statements started; shared are   *)
(* the objects of the caller, by the names the caller bound them to.       *)
RECURSIVE Exec(_, _, _, _, _)
Exec(stmts, scope, shared, out, count) ==
    IF stmts = <<>>
    THEN [ok |-> TRUE, fault |-> "", scope |-> scope, shared |-> shared, out |-> out,
          ran |-> count]
    ELSE LET Then(stmt, r) ==
                 IF ~r.ok
                 THEN [ok |-> FALSE, fault |-> r.fault, scope |-> scope, shared |-> shared,
                       out |-> out \o r.out, ran |-> count + 1]
                 ELSE Exec(Tail(stmts), Bound(stmt, r, scope), Shared(stmt, r, shared),
                           out \o r.out, count + 1)
         IN Then(Head(stmts),
                 CASE Head(stmts).kind = "Assign" /\ Head(stmts).kids[1].kind = "Subscript" ->
                         ExecAssignItem(Head(stmts), scope)
                   [] Head(stmts).kind \in {"Assign", "Expr"} ->
                         Eval(Last(Head(stmts).kids), scope)
                   [] Head(stmts).kind = "Import" -> Fault("ImportError", <<>>)
                   [] OTHER                       -> Fault("TypeError", <<>>))

----------------------------------------------------------------------------
(* SafeCodeExecutor._prepare_context *)

(* hasattr(__builtins__, name): the builtins module has every allow-listed *)
(* name; the dict an imported module sees as __builtins__ has only the     *)
(* attributes of a dict.                                                   *)
DictAttributes ==
    {"clear", "copy", "fromkeys", "get", "items", "keys", "pop", "popitem",
     "setdefault", "update", "values"}

builtins_hasattr(name) ==
    IF builtins_is_module THEN name \in allowed_builtins ELSE name \in DictAttributes

(* exec_context.update(context): the scope gets the objects of the caller  *)
(* themselves, not copies                                                  *)
ByReference(context) == [name \in DOMAIN context |-> [context[name] EXCEPT !.ref = name]]

_prepare_context(context) ==
    LET modules == [m \in allowed_modules |-> [Val("module") EXCEPT !.s = m]]
        builtins == [b \in {a \in allowed_builtins : builtins_hasattr(a)} |->
                        [Val("builtin") EXCEPT !.s = b]]
    IN ByReference(context) @@ builtins @@ modules

----------------------------------------------------------------------------
(* SafeCodeExecutor._save_execution_history *)

(* str(result): the display of the value, a string *)
StrOf(v) == [v EXCEPT !.t = "str", !.s = v.t]

history_entry(code, result, output, success, now) ==
    [timestamp |-> now,
     code      |-> code,
     result    |-> IF result # None THEN StrOf(result) ELSE None,
     output    |-> output,
     success   |-> success]

(* Mutants of _save_execution_history: no size limit; the first 100 kept *)
save_without_limit(history, code, result, output, success, now) ==
    Append(history, history_entry(code, result, output, success, now))

save_keeping_oldest(history, code, result, output, success, now) ==
    LET appended_to == Append(history, history_entry(code, result, output, success, now))
    IN IF Len(appended_to) > HistoryLimit
       THEN SubSeq(appended_to, 1, HistoryLimit)
       ELSE appended_to

_save_execution_history(history, code, result, output, success, now) ==
    LET appended_to == Append(history, history_entry(code, result, output, success, now))
    IN IF Len(appended_to) > HistoryLimit
       THEN SubSeq(appended_to, Len(appended_to) - HistoryLimit + 1, Len(appended_to))
       ELSE appended_to

----------------------------------------------------------------------------
(* SafeCodeExecutor.execute_code *)

(* The third component of the returned triple: the captured stdout, or the *)
(* failure message.                                                        *)
Output(kind, message, printed) == [kind |-> kind, message |-> message, printed |-> printed]

(* The returned triple; raised names the exception that left the call *)
Return(success, result, output, raised) ==
    [success |-> success, result |-> result, output |-> output, raised |-> raised]

NoReturn == Return(FALSE, None, Output("", <<"", "">>, <<>>), "")

(* The exception classes of the model that derive from Exception *)
ExceptionClasses ==
    {"NameError", "KeyError", "AttributeError", "TypeError", "ValueError", "ImportError"}

(* Mutant of the except clause: except KeyError as e *)
Caught_key_errors_only(fault) == fault = "KeyError"

(* except Exception as e *)
Caught(fault) == fault \in ExceptionClasses

(* lines 218-225: the program ran to its end *)
execute_success(code, run, history, now) ==
    LET result == IF "result" \in DOMAIN run.scope THEN run.scope["result"] ELSE None
        output == Output("stdout", <<"", "">>, run.out)
    IN [ret     |-> Return(TRUE, result, output, ""),
        history |-> _save_execution_history(history, code, result, output, TRUE, now),
        saved   |-> <<history_entry(code, result, output, TRUE, now)>>,
        ran     |-> run.ran]

(* Mutants of execute_except: the attempt is not recorded; the value the   *)
(* program had bound to result is returned                                 *)
execute_except_unrecorded(code, run, history, now) ==
    LET error_msg == Output("execution error", <<run.fault, "">>, <<>>)
    IN [ret     |-> Return(FALSE, None, error_msg, ""),
        history |-> history,
        saved   |-> <<>>,
        ran     |-> run.ran]

execute_except_partial(code, run, history, now) ==
    LET error_msg == Output("execution error", <<run.fault, "">>, <<>>)
        result == IF "result" \in DOMAIN run.scope THEN run.scope["result"] ELSE None
    IN [ret     |-> Return(FALSE, result, error_msg, ""),
        history |-> _save_execution_history(history, code, result, error_msg, FALSE, now),
        saved   |-> <<history_entry(code, result, error_msg, FALSE, now)>>,
        ran     |-> run.ran]

(* lines 227-230: the program raised *)
execute_except(code, run, history, now) ==
    LET error_msg == Output("execution error", <<run.fault, "">>, <<>>)
    IN [ret     |-> Return(FALSE, None, error_msg, ""),
        history |-> _save_execution_history(history, code, None, error_msg, FALSE, now),
        saved   |-> <<history_entry(code, None, error_msg, FALSE, now)>>,
        ran     |-> run.ran]

(* lines 199-202: the program was rejected *)
execute_rejected(code, is_safe, history, now) ==
    [ret     |-> Return(FALSE, None, Output("validation failed", is_safe.message, <<>>), ""),
     history |-> history,
     saved   |-> <<>>,
     ran     |-> 0]

(* lines 204-233: the program was found safe; run is what exec did.  An    *)
(* exception the except clause does not catch leaves the call.             *)
execute_validated(code, run, history, now) ==
    IF run.ok THEN execute_success(code, run, history, now)
    ELSE IF Caught(run.fault) THEN execute_except(code, run, history, now)
    ELSE [ret     |-> Return(FALSE, None, Output("", <<"", "">>, <<>>), run.fault),
          history |-> history,
          saved   |-> <<>>,
          ran     |-> run.ran]

(* lines 205-216: the scope is prepared and the program executed in it *)
execute_exec(code, context) ==
    Exec(Statements(code), _prepare_context(context), ByReference(context), <<>>, 0)

(* The bindings of the caller after execute_code(code, context) *)
ContextAfter(code, context) ==
    IF validate_code(code).safe
    THEN [name \in DOMAIN context |-> New(execute_exec(code, context).shared[name])]
    ELSE context

(* Mutant of execute_code: the program is run before the verdict is looked at *)
execute_before_validating(code, context, history, now) ==
    IF ~validate_code(code).safe
    THEN [execute_rejected(code, validate_code(code), history, now)
             EXCEPT !.ran = execute_exec(code, context).ran]
    ELSE execute_validated(code, execute_exec(code, context), history, now)

execute_code_result(code, context, history, now) ==
    IF ~validate_code(code).safe
    THEN execute_rejected(code, validate_code(code), history, now)
    ELSE execute_validated(code, execute_exec(code, context), history, now)

execute_code(code, context) ==
    \E done \in {execute_code_result(code, context, execution_history, calls + 1)} :
       /\ calls' = calls + 1
       /\ verdict' = validate_code(code)
       /\ last_code' = code
       /\ last_context' = context
       /\ ret' = done.ret
       /\ ran' = done.ran
       /\ execution_history' = done.history
       /\ appended' = appended + Len(done.saved)
       /\ arrived' = arrived \o done.saved
       /\ UNCHANGED <<process_vars, builtins_is_module, workload>>

(* successful / total as a fraction in lowest terms; the int 0 is 0/1 *)
RECURSIVE GCD(_, _)
GCD(a, b) == IF b = 0 THEN a ELSE GCD(b, a % b)

Fraction(a, b) == [num |-> a \div GCD(a, b), den |-> b \div GCD(a, b)]

RecentExecutions == 5

Summary(total, success_rate, recent) ==
    [total_executions |-> total, success_rate |-> success_rate, recent_executions |-> recent]

(* history[-5:] *)
Recent(history) ==
    SubSeq(history,
           IF Len(history) > RecentExecutions THEN Len(history) - RecentExecutions + 1 ELSE 1,
           Len(history))

(* Mutant of get_execution_summary: the five oldest records *)
summary_of_oldest(history) ==
    Summary(Len(history),
            Fraction(Len(SelectSeq(history, LAMBDA entry : entry.success)),
                     IF history = <<>> THEN 1 ELSE Len(history)),
            SubSeq(history, 1, IF Len(history) > RecentExecutions
                                THEN RecentExecutions ELSE Len(history)))

(* SafeCodeExecutor.get_execution_summary *)
get_execution_summary(history) ==
    IF history = <<>>
    THEN Summary(0, Fraction(0, 1), <<>>)
    ELSE Summary(Len(history),
                 Fraction(Len(SelectSeq(history, LAMBDA entry : entry.success)), Len(history)),
                 Recent(history))

(* SafeCodeExecutor.clear_history *)
clear_history ==
    /\ execution_history' = <<>>
    /\ arrived' = <<>>
    /\ UNCHANGED <<process_vars, builtins_is_module, ret, calls, appended, ran, verdict, last_code,
                   last_context, workload, question, stage, intent, analysis_code,
                   unified_data, agent_vars>>

----------------------------------------------------------------------------
(* Two threads in execute_code of the one executor.  A thread is switched  *)
(* between any two bytecodes: the load of self.execution_history and the   *)
(* use of the list it gave are two steps.                                  *)

Threads == {1, 2}

(* pc: where the thread is; entry: <<the record it saves>>; list: the      *)
(* list object it loaded, by its place in heap; cut: the slice it took     *)
Thread(pc, entry, list, cut) == [pc |-> pc, entry |-> entry, list |-> list, cut |-> cut]

ThreadFrame ==
    UNCHANGED <<builtins_is_module, workload, ret, ran, verdict, last_code, last_context,
                pipeline_vars, agent_vars, singleton_vars>>

(* lines 199-230: the program is validated and run in the scope of the     *)
(* call, and history_entry is made; a program that is rejected returns     *)
ThreadCall(t, code, context) ==
    /\ threads[t].pc = "idle"
    /\ \E done \in {execute_code_result(code, context, <<>>, calls + 1)} :
          threads' = [threads EXCEPT ![t] =
                         IF done.saved = <<>> THEN Thread("done", <<>>, 0, <<>>)
                         ELSE Thread("load to append", done.saved, 0, <<>>)]
    /\ calls' = calls + 1
    /\ UNCHANGED <<execution_history, appended, arrived, heap, history_ref>>
    /\ ThreadFrame

(* self.execution_history is loaded: lines 262, 265 and 266 *)
ThreadLoad(t) ==
    /\ threads[t].pc \in {"load to append", "load to measure", "load to cut"}
    /\ threads' = [threads EXCEPT ![t].list = history_ref,
                                  ![t].pc = CASE @ = "load to append" -> "append"
                                              [] @ = "load to measure" -> "measure"
                                              [] @ = "load to cut" -> "cut"]
    /\ UNCHANGED <<execution_history, calls, appended, arrived, heap, history_ref>>
    /\ ThreadFrame

(* line 262: .append(history_entry) on the list that was loaded *)
ThreadAppend(t) ==
    /\ threads[t].pc = "append"
    /\ heap' = [heap EXCEPT ![threads[t].list] = Append(@, threads[t].entry[1])]
    /\ execution_history' = heap'[history_ref]
    /\ threads' = [threads EXCEPT ![t].pc = "load to measure"]
    /\ appended' = appended + 1
    /\ arrived' = Append(arrived, threads[t].entry[1])
    /\ UNCHANGED <<calls, history_ref>>
    /\ ThreadFrame

(* line 265: len(...) > 100 of the list that was loaded *)
ThreadLen(t) ==
    /\ threads[t].pc = "measure"
    /\ threads' = [threads EXCEPT ![t].pc =
                      IF Len(heap[threads[t].list]) > HistoryLimit
                      THEN "load to cut" ELSE "done"]
    /\ UNCHANGED <<execution_history, calls, appended, arrived, heap, history_ref>>
    /\ ThreadFrame

(* line 266: [-100:] of the list that was loaded, a new list *)
ThreadSlice(t) ==
    /\ threads[t].pc = "cut"
    /\ \E list \in {heap[threads[t].list]} :
          threads' = [threads EXCEPT
                         ![t].cut = IF Len(list) > HistoryLimit
                                    THEN SubSeq(list, Len(list) - HistoryLimit + 1, Len(list))
                                    ELSE list,
                         ![t].pc = "store"]
    /\ UNCHANGED <<execution_history, calls, appended, arrived, heap, history_ref>>
    /\ ThreadFrame

(* line 266: self.execution_history = the new list *)
ThreadStore(t) ==
    /\ threads[t].pc = "store"
    /\ heap' = Append(heap, threads[t].cut)
    /\ history_ref' = Len(heap) + 1
    /\ execution_history' = threads[t].cut
    /\ threads' = [threads EXCEPT ![t].pc = "done"]
    /\ UNCHANGED <<calls, appended, arrived>>
    /\ ThreadFrame

----------------------------------------------------------------------------
(* Text.  A question is the sequence of its characters.  A Latin letter, a *)
(* digit or a punctuation mark is written as itself; a Hangul syllable is  *)
(* written in romanised form with at least two letters ("ii" for the       *)
(* syllable i, "ee" for e), so that no syllable reads as a Latin letter;   *)
(* "emoji" is one pictograph.                                              *)

Digits == {"0", "1", "2", "3", "4", "5", "6", "7", "8", "9"}

DigitValue(c) ==
    CASE c = "0" -> 0 [] c = "1" -> 1 [] c = "2" -> 2 [] c = "3" -> 3 [] c = "4" -> 4
      [] c = "5" -> 5 [] c = "6" -> 6 [] c = "7" -> 7 [] c = "8" -> 8 [] c = "9" -> 9

(* int(match) for a run of digits *)
RECURSIVE ToInt(_)
ToInt(ds) == IF ds = <<>> THEN 0
             ELSE ToInt(SubSeq(ds, 1, Len(ds) - 1)) * 10 + DigitValue(ds[Len(ds)])

Whitespace == {" "}

(* str.strip() *)
RECURSIVE StripLeft(_)
StripLeft(text) ==
    IF text # <<>> /\ Head(text) \in Whitespace THEN StripLeft(Tail(text)) ELSE text

RECURSIVE StripRight(_)
StripRight(text) ==
    IF text # <<>> /\ text[Len(text)] \in Whitespace
    THEN StripRight(SubSeq(text, 1, Len(text) - 1)) ELSE text

Strip(text) == StripRight(StripLeft(text))

(* str.lower(): only Latin capitals change *)
LowerChar(c) ==
    CASE c = "C" -> "c" [] c = "O" -> "o" [] c = "G" -> "g" [] c = "H" -> "h"
      [] c = "V" -> "v" [] c = "S" -> "s" [] OTHER -> c

Lower(text) == [i \in 1..Len(text) |-> LowerChar(text[i])]

(* keyword in text *)
Contains(text, keyword) ==
    \E i \in 0..(Len(text) - Len(keyword)) : SubSeq(text, i + 1, i + Len(keyword)) = keyword

ContainsAny(text, keywords) == \E k \in keywords : Contains(text, k)

(* re.search for the patterns of the analyzer.  A pattern is a sequence of *)
(* items: "\\d" is a digit, ".*" any run of characters other than a line   *)
(* break, and every other item is that character.                          *)
RECURSIVE MatchHere(_, _)
MatchHere(pattern, text) ==
    IF pattern = <<>> THEN TRUE
    ELSE IF Head(pattern) = ".*"
    THEN \E k \in 0..Len(text) :
            /\ \A i \in 1..k : text[i] # "\n"
            /\ MatchHere(Tail(pattern), SubSeq(text, k + 1, Len(text)))
    ELSE /\ text # <<>>
         /\ IF Head(pattern) = "\\d" THEN Head(text) \in Digits ELSE Head(text) = Head(pattern)
         /\ MatchHere(Tail(pattern), Tail(text))

search(pattern, text) ==
    \E k \in 0..Len(text) : MatchHere(pattern, SubSeq(text, k + 1, Len(text)))

SearchAny(patterns, text) == \E i \in 1..Len(patterns) : search(patterns[i], text)

----------------------------------------------------------------------------
(* QueryAnalyzer.__init__ *)

(* year_pattern, r'(\d{4})': four digits, wherever they stand *)
YearPatternLength == 4

(* re.findall(self.year_pattern, query): the matches from left to right,   *)
(* none overlapping an earlier one                                         *)
RECURSIVE findall_year_pattern(_)
findall_year_pattern(text) ==
    IF Len(text) < YearPatternLength THEN <<>>
    ELSE IF \A i \in 1..YearPatternLength : text[i] \in Digits
    THEN <<SubSeq(text, 1, YearPatternLength)>>
         \o findall_year_pattern(SubSeq(text, YearPatternLength + 1, Len(text)))
    ELSE findall_year_pattern(Tail(text))

comparison_keywords ==
    {<<"bi", "gyo">>, <<"cha", "ii">>, <<"dae", "bi">>, <<"v", "s">>, <<"wa">>, <<"gwa">>,
     <<"bo", "da">>, <<"dae", "jo">>, <<"bi", "gyo", "hae">>, <<"cha", "ii", "jeom">>,
     <<"cha", "ii", "neun">>, <<"bi", "gyo", "ha", "myeon">>}

trend_keywords ==
    {<<"chu", "ii">>, <<"byeon", "hwa">>, <<"teu", "ren", "deu">>, <<"gyeong", "hyang">>,
     <<"jeung", "ga">>, <<"gam", "so">>, <<"byeon", "dong">>, <<"chu", "se">>,
     <<"heu", "reum">>, <<"pae", "teon">>, <<"byeon", "hwa", "ryang">>, <<"jeung", "gam">>}

ranking_keywords ==
    {<<"sun", "wi">>, <<"manh", "eun">>, <<"jeok", "eun">>, <<"nop", "eun">>, <<"naj", "eun">>,
     <<"choe", "dae">>, <<"choe", "so">>, <<"ga", "jang">>, <<"sang", "wi">>, <<"ha", "wi">>,
     <<"1", "wi">>, <<"top">>, <<"raeng", "king">>}

statistics_keywords ==
    {<<"pyeong", "gyun">>, <<"chong", "hap">>, <<"hap", "gye">>, <<"jeon", "che">>, <<"chong">>,
     <<"pyeong", "gyun", "jeok", "eu", "ro">>, <<"tong", "gye">>, <<"bun", "po">>,
     <<"bi", "yul">>, <<"peo", "sen", "teu">>, <<"%">>}

correlation_keywords ==
    {<<"gwan", "gye">>, <<"sang", "gwan", "gwan", "gye">>, <<"yeon", "gwan">>,
     <<"yeong", "hyang">>, <<"gwan", "ryeon">>, <<"sang", "gwan", "seong">>,
     <<"yeon", "gwan", "seong">>, <<"gwan", "gye", "seong">>}

(* sector_keywords and metric_keywords: a name and its keywords, in the    *)
(* order of the dictionary                                                 *)
sector_keywords ==
    <<[name |-> <<"ee", "neo", "ji">>,
       keywords |-> {<<"ee", "neo", "ji">>, <<"jeon", "ryeok">>, <<"bal", "jeon">>,
                     <<"yeon", "ryo">>}],
      [name |-> <<"san", "eop">>,
       keywords |-> {<<"san", "eop">>, <<"je", "jo">>, <<"gong", "jang">>, <<"saeng", "san">>}],
      [name |-> <<"su", "song">>,
       keywords |-> {<<"su", "song">>, <<"gyo", "tong">>, <<"un", "song">>,
                     <<"ja", "dong", "cha">>, <<"hang", "gong">>, <<"seon", "bak">>}],
      [name |-> <<"geon", "mul">>,
       keywords |-> {<<"geon", "mul">>, <<"ju", "geo">>, <<"sang", "eop">>, <<"nan", "bang">>,
                     <<"naeng", "bang">>}],
      [name |-> <<"nong", "eop">>,
       keywords |-> {<<"nong", "eop">>, <<"chuk", "san">>, <<"im", "eop">>, <<"nong", "rim">>}],
      [name |-> <<"pye", "gi", "mul">>,
       keywords |-> {<<"pye", "gi", "mul">>, <<"sseu", "re", "gi">>, <<"pye", "gi">>,
                     <<"jae", "hwal", "yong">>}]>>

metric_keywords ==
    <<[name |-> <<"bae", "chul", "ryang">>,
       keywords |-> {<<"bae", "chul", "ryang">>, <<"bae", "chul">>, <<"bang", "chul">>,
                     <<"C", "O", "2">>, <<"on", "sil", "ga", "seu">>, <<"G", "H", "G">>}],
      [name |-> <<"hal", "dang", "ryang">>,
       keywords |-> {<<"hal", "dang", "ryang">>, <<"hal", "dang">>, <<"bae", "jeong">>}],
      [name |-> <<"geo", "rae", "ryang">>,
       keywords |-> {<<"geo", "rae", "ryang">>, <<"geo", "rae">>, <<"mae", "mae">>}],
      [name |-> <<"gam", "chuk", "ryang">>,
       keywords |-> {<<"gam", "chuk", "ryang">>, <<"gam", "chuk">>, <<"jeol", "yak">>,
                     <<"jeo", "gam">>}]>>

(* the alternatives of the regular expression of _classify_query_type *)
specific_value_pattern ==
    {<<"eol", "ma">>, <<"myeoch">>, <<"su", "chi">>, <<"gabs">>, <<"ryang">>}

----------------------------------------------------------------------------
(* QueryAnalyzer *)

(* sorted(list(set(years))) *)
RECURSIVE SortedSet(_)
SortedSet(S) ==
    IF S = {} THEN <<>>
    ELSE LET least == CHOOSE x \in S : \A y \in S : x <= y
         IN <<least>> \o SortedSet(S \ {least})

MinYear == 1990
MaxYear == 2030

_extract_years(query) ==
    LET matches == findall_year_pattern(query)
        years == SelectSeq([i \in 1..Len(matches) |-> ToInt(matches[i])],
                           LAMBDA year : MinYear <= year /\ year <= MaxYear)
    IN SortedSet(Range(years))

(* Mutant of _classify_query_type: the trend keywords are tried first *)
classify_trend_first(query) ==
    LET query_lower == Lower(query)
    IN IF ContainsAny(query_lower, trend_keywords) THEN "trend"
       ELSE IF ContainsAny(query_lower, comparison_keywords) THEN "comparison"
       ELSE IF ContainsAny(query_lower, ranking_keywords) THEN "ranking"
       ELSE IF ContainsAny(query_lower, statistics_keywords) THEN "statistics"
       ELSE IF ContainsAny(query_lower, correlation_keywords) THEN "correlation"
       ELSE IF ContainsAny(query_lower, specific_value_pattern) THEN "specific_value"
       ELSE "summary"

_classify_query_type(query) ==
    LET query_lower == Lower(query)
    IN IF ContainsAny(query_lower, comparison_keywords) THEN "comparison"
       ELSE IF ContainsAny(query_lower, trend_keywords) THEN "trend"
       ELSE IF ContainsAny(query_lower, ranking_keywords) THEN "ranking"
       ELSE IF ContainsAny(query_lower, statistics_keywords) THEN "statistics"
       ELSE IF ContainsAny(query_lower, correlation_keywords) THEN "correlation"
       ELSE IF ContainsAny(query_lower, specific_value_pattern) THEN "specific_value"
       ELSE "summary"

_determine_chart_type(query_type, years) ==
    CASE query_type = "trend"       -> "line"
      [] query_type = "comparison"  -> "bar"
      [] query_type = "ranking"     -> "bar"
      [] query_type = "statistics"  -> IF Len(years) > 3 THEN "line" ELSE "pie"
      [] query_type = "correlation" -> "scatter"
      [] OTHER                      -> "bar"

_determine_time_period(years) ==
    IF Len(years) >= 2 THEN <<years[1], years[Len(years)]>>
    ELSE IF Len(years) = 1 THEN <<years[1] - 2, years[1] + 2>>
    ELSE <<2017, 2021>>

_determine_aggregation(query) ==
    LET query_lower == Lower(query)
    IN IF ContainsAny(query_lower, {<<"pyeong", "gyun">>, <<"a", "v", "e", "r", "a", "g", "e">>,
                                    <<"a", "v", "g">>}) THEN "mean"
       ELSE IF ContainsAny(query_lower, {<<"chong">>, <<"hap", "gye">>, <<"jeon", "che">>,
                                         <<"t", "o", "t", "a", "l">>, <<"s", "u", "m">>}) THEN "sum"
       ELSE IF ContainsAny(query_lower, {<<"choe", "dae">>, <<"choe", "go">>, <<"m", "a", "x">>,
                                         <<"m", "a", "x", "i", "m", "u", "m">>}) THEN "max"
       ELSE IF ContainsAny(query_lower, {<<"choe", "so">>, <<"choe", "jeo">>, <<"m", "i", "n">>,
                                         <<"m", "i", "n", "i", "m", "u", "m">>}) THEN "min"
       ELSE "sum"

(* The names whose keywords occur in the query, in the order of the dictionary *)
NamesFound(dictionary, query_lower) ==
    LET found == SelectSeq(dictionary, LAMBDA entry : ContainsAny(query_lower, entry.keywords))
    IN [i \in 1..Len(found) |-> found[i].name]

_extract_entities(query) == NamesFound(sector_keywords, Lower(query))

_extract_metrics(query) ==
    IF NamesFound(metric_keywords, Lower(query)) = <<>> THEN <<<<"bae", "chul", "ryang">>>>
    ELSE NamesFound(metric_keywords, Lower(query))

(* len(query.split()): the number of words between white space *)
WordCount(text) ==
    Cardinality({i \in 1..Len(text) :
                    text[i] \notin Whitespace /\ (i = 1 \/ text[i - 1] \in Whitespace)})

(* _calculate_confidence, in tenths: 5 is 0.5.  The code adds floating     *)
(* point numbers, whose sums differ from these by less than 10^-15.        *)
_calculate_confidence(query, query_type, years, entities, metrics) ==
    LET confidence ==
            5 + (IF years # <<>> THEN 2 ELSE 0)
              + (IF entities # <<>> THEN 2 ELSE 0)
              + (IF metrics # <<>> /\ <<"bae", "chul", "ryang">> \in Range(metrics) THEN 1 ELSE 0)
              + (IF query_type # "unknown" THEN 1 ELSE 0)
              + (IF 5 <= WordCount(query) /\ WordCount(query) <= 20 THEN 1 ELSE 0)
    IN IF confidence < 10 THEN confidence ELSE 10

(* analyze_query: the intent, but for its comparison items, which nothing  *)
(* downstream reads                                                        *)
analyze_query(text) ==
    LET query == Strip(text)
        years == _extract_years(query)
        query_type == _classify_query_type(query)
    IN [query_type  |-> query_type,
        chart_type  |-> _determine_chart_type(query_type, years),
        years       |-> years,
        entities    |-> _extract_entities(query),
        metrics     |-> _extract_metrics(query),
        time_period |-> _determine_time_period(years),
        aggregation |-> _determine_aggregation(query),
        confidence  |-> _calculate_confidence(query, query_type, years,
                                              _extract_entities(query), _extract_metrics(query))]

(* QueryAnalyzer.needs_visualization *)

chart_keywords ==
    {<<"geu", "rae", "peu">>, <<"cha", "teu">>, <<"geu", "ryeo", "jwo">>,
     <<"geu", "ryeo", "ju", "se", "yo">>, <<"si", "gak", "hwa">>,
     <<"mak", "dae", "geu", "rae", "peu">>, <<"seon", "geu", "rae", "peu">>,
     <<"pa", "ii", "cha", "teu">>, <<"do", "pyo">>, <<"do", "sik">>,
     <<"bo", "yeo", "jwo">>, <<"bo", "yeo", "ju", "se", "yo">>, <<"geu", "rim">>,
     <<"cha", "teu", "ro">>, <<"geu", "rae", "peu", "ro">>,
     <<"pyo", "hyeon", "hae", "jwo">>, <<"pyo", "hyeon", "hae", "ju", "se", "yo">>,
     <<"bi", "gyo", "hae", "jwo">>, <<"bi", "gyo", "hae", "ju", "se", "yo">>}

comparison_patterns ==
    <<<<"\\d", "\\d", "\\d", "\\d", "nyeon", ".*", "\\d", "\\d", "\\d", "\\d", "nyeon", ".*",
        "bi", "gyo">>,
      <<"bi", "gyo", ".*", "\\d", "\\d", "\\d", "\\d", "nyeon", ".*",
        "\\d", "\\d", "\\d", "\\d", "nyeon">>,
      <<"\\d", "\\d", "\\d", "\\d", ".*", "v", "s", ".*", "\\d", "\\d", "\\d", "\\d">>,
      <<"\\d", "\\d", "\\d", "\\d", ".*", "dae", "bi", ".*", "\\d", "\\d", "\\d", "\\d">>,
      <<"cha", "ii", ".*", "\\d", "\\d", "\\d", "\\d", ".*", "\\d", "\\d", "\\d", "\\d">>>>

trend_patterns ==
    <<<<"chu", "ii">>, <<"byeon", "hwa">>, <<"teu", "ren", "deu">>, <<"gyeong", "hyang">>,
      <<"jeung", "ga">>, <<"gam", "so">>, <<"byeon", "dong">>>>

ranking_patterns ==
    <<<<"sun", "wi">>, <<"raeng", "king">>, <<"manh", "eun">>, <<"jeok", "eun">>,
      <<"choe", "dae">>, <<"choe", "so">>, <<"sang", "wi">>, <<"ha", "wi">>>>

(* What needs_visualization returns, and the pattern families it searched  *)
(* before it returned                                                      *)
Visualization(needed, searched) == [needed |-> needed, searched |-> searched]

(* Mutant of needs_visualization: the pattern families are searched before *)
(* the chart keywords are looked at                                        *)
needs_visualization_patterns_first(text) ==
    IF SearchAny(comparison_patterns, text) THEN Visualization(TRUE, <<"comparison">>)
    ELSE IF SearchAny(trend_patterns, text) THEN Visualization(TRUE, <<"comparison", "trend">>)
    ELSE IF SearchAny(ranking_patterns, text)
    THEN Visualization(TRUE, <<"comparison", "trend", "ranking">>)
    ELSE Visualization(ContainsAny(Lower(text), chart_keywords),
                       <<"comparison", "trend", "ranking">>)

needs_visualization(text) ==
    IF ContainsAny(Lower(text), chart_keywords) THEN Visualization(TRUE, <<>>)
    ELSE IF SearchAny(comparison_patterns, text) THEN Visualization(TRUE, <<"comparison">>)
    ELSE IF SearchAny(trend_patterns, text) THEN Visualization(TRUE, <<"comparison", "trend">>)
    ELSE Visualization(SearchAny(ranking_patterns, text), <<"comparison", "trend", "ranking">>)

NoIntent ==
    [query_type |-> "", chart_type |-> "", years |-> <<>>, entities |-> <<>>,
     metrics |-> <<>>, time_period |-> <<0, 0>>, aggregation |-> "", confidence |-> 0]

----------------------------------------------------------------------------
(* SafeCodeExecutor.generate_analysis_code *)

PrintCall(arg) == ExprStmt(Call(Name("print"), <<arg>>))

GroupBy(table, keys, fn) ==
    Method(Method(Subscript(Method(Name(table), "groupby", <<keys>>), Str("value")), fn, <<>>),
           "reset_index", <<>>)

(* Mutant of Branch: an unknown query type takes the comparison branch *)
Branch_unknown_as_comparison(query_type) ==
    IF query_type \in {"comparison", "unknown"} THEN "comparison"
    ELSE IF query_type \in {"trend", "ranking"} THEN query_type
    ELSE "default"

(* The branch of generate_analysis_code taken for a query type: the if,    *)
(* elif, elif, else over query_intent.query_type                           *)
Branch(query_type) ==
    IF query_type = "comparison" THEN "comparison"
    ELSE IF query_type = "trend" THEN "trend"
    ELSE IF query_type = "ranking" THEN "ranking"
    ELSE "default"

generate_analysis_code(query_intent, data_columns) ==
    LET header == <<Comment(<<"generated analysis code">>),
                    Comment(<<"query type", query_intent.query_type>>)>>
        filter ==
            IF query_intent.years # <<>>
            THEN <<Assign("filtered_data",
                     Subscript(Name("unified_data"),
                        Method(Subscript(Name("unified_data"), Str("year")), "isin",
                           <<ListOf([i \in 1..Len(query_intent.years) |->
                                        Num(query_intent.years[i])])>>)))>>
            ELSE <<Assign("filtered_data", Method(Name("unified_data"), "copy", <<>>))>>
        body ==
            CASE Branch(query_intent.query_type) = "comparison" ->
                    <<Comment(<<"comparison">>),
                      Assign("comparison_result",
                             GroupBy("filtered_data", Str("year"), query_intent.aggregation)),
                      Assign("result", Name("comparison_result")),
                      PrintCall(Str("comparison result")),
                      PrintCall(Name("result"))>>
              [] Branch(query_intent.query_type) = "trend" ->
                    <<Comment(<<"trend">>),
                      Assign("trend_result", GroupBy("filtered_data", Str("year"), "sum")),
                      Assign("trend_result",
                             Method(Name("trend_result"), "sort_values", <<Str("year")>>)),
                      Assign("result", Name("trend_result")),
                      PrintCall(Str("trend result")),
                      PrintCall(Name("result"))>>
              [] Branch(query_intent.query_type) = "ranking" ->
                    <<Comment(<<"ranking">>),
                      Assign("ranking_result", GroupBy("filtered_data", Str("dataset"), "sum")),
                      Assign("ranking_result",
                             Method(Name("ranking_result"), "sort_values",
                                    <<Str("value"), Bool(FALSE)>>)),
                      Assign("result", Name("ranking_result")),
                      PrintCall(Str("ranking result")),
                      PrintCall(Name("result"))>>
              [] OTHER ->
                    <<Comment(<<"basic">>),
                      Assign("basic_result",
                             GroupBy("filtered_data", ListOf(<<Str("year"), Str("dataset")>>), "sum")),
                      Assign("result", Name("basic_result")),
                      PrintCall(Str("analysis result")),
                      PrintCall(Method(Name("result"), "head", <<Num(10)>>))>>
    IN header \o filter \o body

(* SafeCodeExecutor._extract_years: the years of 1990..2030 among the runs *)
(* of four digits, ascending, each once                                    *)
executor_extract_years(query) ==
    SortedSet({ToInt(m) : m \in {d \in Range(findall_year_pattern(query)) :
                                    MinYear <= ToInt(d) /\ ToInt(d) <= MaxYear}})

(* The lines of a text: the pieces between line breaks *)
RECURSIVE SplitLines(_, _)
SplitLines(text, line) ==
    IF text = <<>> THEN <<line>>
    ELSE IF Head(text) = "\n" THEN <<line>> \o SplitLines(Tail(text), <<>>)
    ELSE SplitLines(Tail(text), Append(line, Head(text)))

(* The statements a line of a question can be: a question is characters,   *)
(* but for a Python name, a label or a number in it, written as one string *)
QuestionStatements ==
    {AssignItem("unified_data", Str("value"), Num(0)),
     Assign("unified_data", Num(0)),
     AssignItem("filtered_data", Str("value"), Num(0))}

(* A line of program text as ast.parse takes it: nothing for a blank line, *)
(* a comment after "#", a statement, and a line that does not parse        *)
ParseLine(line) ==
    IF Strip(line) = <<>> THEN <<>>
    ELSE IF Head(line) = "#" THEN <<Comment(Tail(line))>>
    ELSE IF \E stmt \in QuestionStatements : Render(stmt) = line
    THEN <<CHOOSE stmt \in QuestionStatements : Render(stmt) = line>>
    ELSE <<Garbage>>

(* generate_code_from_query.  The question is put after "# " in the first  *)
(* line of the program, line breaks and all.                               *)
generate_code_from_query(query, data_info) ==
    LET query_lower == Lower(query)
        df_name == "unified_data"
        years == executor_extract_years(query)
        code_lines ==
            Flatten([i \in 1..Len(SplitLines(<<"#", " ", "jil", "mun", ":", " ">> \o query, <<>>)) |->
                        ParseLine(SplitLines(<<"#", " ", "jil", "mun", ":", " ">> \o query, <<>>)[i])])
            \o <<Comment(<<"generated code">>)>>
        filter ==
            IF years # <<>>
            THEN IF Len(years) = 1
                 THEN <<Assign("filtered_data",
                          Subscript(Name(df_name),
                             Compare(Subscript(Name(df_name), Str("year")), Num(years[1]))))>>
                 ELSE <<Assign("filtered_data",
                          Subscript(Name(df_name),
                             Method(Subscript(Name(df_name), Str("year")), "isin",
                                <<ListOf([i \in 1..Len(years) |-> Num(years[i])])>>)))>>
            ELSE <<Assign("filtered_data", Method(Name(df_name), "copy", <<>>))>>
        aggregation ==
            IF ContainsAny(query_lower, {<<"chong">>, <<"hap", "gye">>, <<"jeon", "che">>})
            THEN "sum"
            ELSE IF ContainsAny(query_lower, {<<"pyeong", "gyun">>}) THEN "mean"
            ELSE IF ContainsAny(query_lower, {<<"choe", "dae">>, <<"choe", "go">>}) THEN "max"
            ELSE IF ContainsAny(query_lower, {<<"choe", "so">>, <<"choe", "jeo">>}) THEN "min"
            ELSE "sum"
        ascending == ContainsAny(query_lower, {<<"jeok", "eun">>, <<"naj", "eun">>,
                                               <<"choe", "so">>})
        body ==
            IF ContainsAny(query_lower, {<<"bi", "gyo">>, <<"cha", "ii">>, <<"dae", "bi">>})
            THEN IF years # <<>> /\ Len(years) >= 2
                 THEN <<Comment(<<"yearly totals">>),
                        Assign("yearly_totals", GroupBy("filtered_data", Str("year"), aggregation)),
                        Assign("result", Name("yearly_totals")),
                        PrintCall(Str("yearly totals")),
                        PrintCall(Name("result"))>>
                 ELSE <<Comment(<<"dataset totals">>),
                        Assign("dataset_totals",
                               GroupBy("filtered_data", Str("dataset"), aggregation)),
                        Assign("result",
                               Method(Name("dataset_totals"), "sort_values",
                                      <<Str("value"), Bool(FALSE)>>)),
                        PrintCall(Str("dataset totals")),
                        PrintCall(Name("result"))>>
            ELSE IF ContainsAny(query_lower, {<<"chu", "ii">>, <<"byeon", "hwa">>,
                                              <<"teu", "ren", "deu">>, <<"gyeong", "hyang">>})
            THEN <<Comment(<<"yearly trend">>),
                   Assign("trend_data", GroupBy("filtered_data", Str("year"), aggregation)),
                   Assign("trend_data", Method(Name("trend_data"), "sort_values", <<Str("year")>>)),
                   Assign("result", Name("trend_data")),
                   PrintCall(Str("yearly trend")),
                   PrintCall(Name("result"))>>
            ELSE IF ContainsAny(query_lower, {<<"sun", "wi">>, <<"manh", "eun">>, <<"jeok", "eun">>,
                                              <<"nop", "eun">>, <<"naj", "eun">>})
            THEN <<Comment(<<"ranking">>),
                   Assign("ranking_data", GroupBy("filtered_data", Str("dataset"), aggregation)),
                   Assign("ranking_data",
                          Method(Name("ranking_data"), "sort_values",
                                 <<Str("value"), Bool(ascending)>>)),
                   Assign("result", Name("ranking_data")),
                   PrintCall(Str("ranking")),
                   PrintCall(Name("result"))>>
            ELSE <<Comment(<<"data summary">>),
                   Assign("summary",
                          GroupBy("filtered_data", ListOf(<<Str("year"), Str("dataset")>>),
                                  aggregation)),
                   Assign("result", Name("summary")),
                   PrintCall(Str("data summary")),
                   PrintCall(Method(Name("result"), "head", <<Num(10)>>))>>
    IN code_lines \o filter \o body

----------------------------------------------------------------------------
(* DataPreprocessor.  A raw table has its column labels, each a sequence   *)
(* of characters, and its rows, each a sequence of cells in column order.  *)
(* A cell is a number, a string or NaN.                                    *)

NumCell(n) == [kind |-> "num", n |-> n, chars |-> <<>>]
StrCell(chars) == [kind |-> "str", n |-> 0, chars |-> chars]
NaN == [kind |-> "nan", n |-> 0, chars |-> <<>>]

RawTable(columns, rows) == [columns |-> columns, rows |-> rows]

(* str(n) for a number that is not negative *)
RECURSIVE DigitsOf(_)
DigitsOf(n) ==
    IF n < 10 THEN <<ToString(n)>> ELSE Append(DigitsOf(n \div 10), ToString(n % 10))

(* str(value) of a cell *)
CellText(cell) ==
    CASE cell.kind = "num" -> DigitsOf(cell.n)
      [] cell.kind = "nan" -> <<"n", "a", "n">>
      [] OTHER -> cell.chars

(* A CSV file: its name, and what pd.read_csv makes of it: a table, or     *)
(* EmptyDataError ("empty"), or another error ("malformed")                *)
File(name, content, df) == [name |-> name, content |-> content, df |-> df]

(* The dataset whose name has the words for the national inventory *)
InventoryName == "inventory"

(* The first column has the years already: it is a column of numbers, or   *)
(* one of its values is the text of a whole number of 1990..2030           *)
YearsInFirstColumn(df) ==
    \/ /\ df.rows # <<>>
       /\ \A r \in 1..Len(df.rows) : df.rows[r][1].kind \in {"num", "nan"}
    \/ \E r \in 1..Len(df.rows) :
          /\ df.rows[r][1].kind = "str"
          /\ df.rows[r][1].chars # <<>>
          /\ \A i \in 1..Len(df.rows[r][1].chars) : df.rows[r][1].chars[i] \in Digits
          /\ MinYear <= ToInt(df.rows[r][1].chars) /\ ToInt(df.rows[r][1].chars) <= MaxYear

(* df.set_index(df.columns[0]).T with the index named and reset: the       *)
(* values of the first column become the labels, the other labels the      *)
(* first column                                                            *)
Transposed(df) ==
    RawTable(<<<<"yeon", "do">>>> \o [r \in 1..Len(df.rows) |-> CellText(df.rows[r][1])],
             [c \in 1..(Len(df.columns) - 1) |->
                 <<StrCell(df.columns[c + 1])>> \o [r \in 1..Len(df.rows) |-> df.rows[r][c + 1]]])

(* _load_csv_with_encoding: <<>> stands for None; raised names the         *)
(* exception that leaves the call                                          *)
_load_csv_with_encoding(file) ==
    CASE file.content = "empty" -> [raised |-> "", df |-> <<>>]
      [] file.content = "malformed" -> [raised |-> "ParserError", df |-> <<>>]
      [] OTHER ->
            IF file.name = InventoryName /\ file.df.columns # <<>>
            THEN IF YearsInFirstColumn(file.df)
                 THEN [raised |-> "",
                       df |-> <<IF Len(file.df.columns) > 1
                                THEN RawTable(<<<<"yeon", "do">>,
                                                <<"chong", "bae", "chul", "ryang">>>>
                                              \o SubSeq(file.df.columns, 3, Len(file.df.columns)),
                                              file.df.rows)
                                ELSE file.df>>]
                 ELSE IF Len(file.df.rows) < Len(file.df.columns)
                 THEN [raised |-> "", df |-> <<Transposed(file.df)>>]
                 ELSE [raised |-> "", df |-> <<file.df>>]
            ELSE [raised |-> "", df |-> <<file.df>>]

(* self.datasets[name] = df: a name that is stored keeps its place *)
Stored(stored, name, df) ==
    IF \E i \in 1..Len(stored) : stored[i].name = name
    THEN [i \in 1..Len(stored) |->
             IF stored[i].name = name THEN [name |-> name, df |-> df] ELSE stored[i]]
    ELSE Append(stored, [name |-> name, df |-> df])

(* df[col].dtype raises AttributeError when two columns have the label col *)
AnalyzeDatasetRaises(df) ==
    \E c, other \in 1..Len(df.columns) : c # other /\ df.columns[c] = df.columns[other]

(* Mutant of analyze_all_datasets: the first file that fails ends the loop *)
RECURSIVE analyze_all_datasets_aborting(_, _)
analyze_all_datasets_aborting(csv_files, stored) ==
    IF csv_files = <<>> THEN stored
    ELSE LET Then(file, read) ==
                 IF read.raised # "" \/ read.df = <<>> THEN stored
                 ELSE IF AnalyzeDatasetRaises(read.df[1]) THEN stored
                 ELSE analyze_all_datasets_aborting(Tail(csv_files),
                         Stored(stored, file.name, read.df[1]))
         IN Then(Head(csv_files), _load_csv_with_encoding(Head(csv_files)))

(* analyze_all_datasets: datasets after the loop over the files.  A file   *)
(* that does not load, or whose load or analysis raises, is left out.      *)
RECURSIVE analyze_all_datasets(_, _)
analyze_all_datasets(csv_files, stored) ==
    IF csv_files = <<>> THEN stored
    ELSE LET Then(file, read) ==
                 IF read.raised # "" \/ read.df = <<>>
                 THEN analyze_all_datasets(Tail(csv_files), stored)
                 ELSE IF AnalyzeDatasetRaises(read.df[1])
                 THEN analyze_all_datasets(Tail(csv_files), stored)
                 ELSE analyze_all_datasets(Tail(csv_files),
                         Stored(stored, file.name, read.df[1]))
         IN Then(Head(csv_files), _load_csv_with_encoding(Head(csv_files)))

(* _analyze_dataset: the columns whose label has four digits in a row *)
_analyze_dataset(df) ==
    LET year_columns == SelectSeq([c \in 1..Len(df.columns) |-> c],
                                  LAMBDA c : search(<<"\\d", "\\d", "\\d", "\\d">>, df.columns[c]))
    IN [has_year_columns |-> year_columns # <<>>, year_columns |-> year_columns]

(* The first four digits in a row of a text: the first match of (\d{4}) *)
RECURSIVE FirstMatch(_)
FirstMatch(text) ==
    IF Len(text) < YearPatternLength THEN <<>>
    ELSE IF \A i \in 1..YearPatternLength : text[i] \in Digits
    THEN SubSeq(text, 1, YearPatternLength)
    ELSE FirstMatch(Tail(text))

(* Mutant of _extract_year: the four digits are taken whatever year they give *)
extract_year_unchecked(year_string) ==
    IF FirstMatch(year_string) # <<>> THEN ToInt(FirstMatch(year_string)) ELSE 0

(* _extract_year: 0 stands for None *)
_extract_year(year_string) ==
    IF FirstMatch(year_string) # <<>>
          /\ MinYear <= ToInt(FirstMatch(year_string)) /\ ToInt(FirstMatch(year_string)) <= MaxYear
    THEN ToInt(FirstMatch(year_string))
    ELSE 0

(* _clean_numeric_value: <<>> stands for None, <<n>> for the number n.  A  *)
(* string is a number when digits are left after commas and blanks are     *)
(* taken out.                                                              *)
_clean_numeric_value(value) ==
    CASE value.kind = "nan" -> <<>>
      [] value.kind = "num" -> <<value.n>>
      [] OTHER ->
            LET cleaned == SelectSeq(value.chars, LAMBDA c : c \notin {",", " "})
            IN IF cleaned # <<>> /\ \A i \in 1..Len(cleaned) : cleaned[i] \in Digits
               THEN <<ToInt(cleaned)>> ELSE <<>>

(* _convert_to_timeseries: one record for every row and every year column  *)
(* whose label gives a year                                                *)
_convert_to_timeseries(df, dataset_name, info) ==
    LET non_year_columns == SelectSeq([c \in 1..Len(df.columns) |-> c],
                                      LAMBDA c : c \notin Range(info.year_columns))
        dated == SelectSeq(info.year_columns, LAMBDA c : _extract_year(df.columns[c]) # 0)
        OfRow(row) ==
            [k \in 1..Len(dated) |->
                [dataset |-> dataset_name,
                 year    |-> _extract_year(df.columns[dated[k]]),
                 value   |-> _clean_numeric_value(row[dated[k]]),
                 meta    |-> [m \in 1..Len(non_year_columns) |-> row[non_year_columns[m]]]]]
    IN Flatten([r \in 1..Len(df.rows) |-> OfRow(df.rows[r])])

(* Series.quantile with linear interpolation, times 4: the quantile at the *)
(* position quarters * (n - 1) / 4 of the ascending values                 *)
QuantileTimes4(ascending, quarters) ==
    LET k == (quarters * (Len(ascending) - 1)) \div 4
        r == (quarters * (Len(ascending) - 1)) % 4
    IN IF r = 0 THEN 4 * ascending[k + 1]
       ELSE 4 * ascending[k + 1] + r * (ascending[k + 2] - ascending[k + 1])

(* _clean_unified_data *)
_clean_unified_data(df) ==
    LET kept == SelectSeq(df, LAMBDA record : record.value # <<>>)
        values == [i \in 1..Len(kept) |-> kept[i].value[1]]
        ascending == SortRows(values, values)
        IsOutlier(v) ==
            /\ kept # <<>>
            /\ \/ 8 * v < 2 * QuantileTimes4(ascending, 1)
                           - 3 * (QuantileTimes4(ascending, 3) - QuantileTimes4(ascending, 1))
               \/ 8 * v > 2 * QuantileTimes4(ascending, 3)
                           + 3 * (QuantileTimes4(ascending, 3) - QuantileTimes4(ascending, 1))
        flagged == [i \in 1..Len(kept) |->
                       [dataset    |-> kept[i].dataset,
                        year       |-> kept[i].year,
                        value      |-> kept[i].value[1],
                        meta       |-> kept[i].meta,
                        is_outlier |-> IsOutlier(kept[i].value[1])]]
    IN SortRows(flagged,
                [i \in 1..Len(flagged) |-> KeyCode(flagged[i], <<"dataset", "year">>)])

(* The records of the datasets that have year columns, in loading order *)
unified_rows(dfs) ==
    Flatten([d \in 1..Len(dfs) |->
                IF _analyze_dataset(dfs[d].df).has_year_columns
                THEN _convert_to_timeseries(dfs[d].df, dfs[d].name, _analyze_dataset(dfs[d].df))
                ELSE <<>>])

(* The metadata after the datasets without year columns are stored in it *)
RECURSIVE StoreMetadata(_, _)
StoreMetadata(dfs, stored) ==
    IF dfs = <<>> THEN stored
    ELSE StoreMetadata(Tail(dfs),
                       IF _analyze_dataset(Head(dfs).df).has_year_columns THEN stored
                       ELSE (Head(dfs).name :> Head(dfs).df.rows) @@ stored)

(* Mutant of standardize_data: the rows are collected in the object and    *)
(* kept from one call to the next                                          *)
standardize_data_accumulating(dfs, unified_before, metadata_before) ==
    [unified_data |-> <<_clean_unified_data(
                          (IF unified_before = <<>> THEN <<>>
                           ELSE [i \in 1..Len(unified_before[1]) |->
                                    [dataset |-> unified_before[1][i].dataset,
                                     year    |-> unified_before[1][i].year,
                                     value   |-> <<unified_before[1][i].value>>,
                                     meta    |-> unified_before[1][i].meta]])
                          \o unified_rows(dfs))>>,
     metadata     |-> StoreMetadata(dfs, metadata_before),
     datasets     |-> dfs]

(* standardize_data: what it leaves in unified_data, metadata and datasets *)
standardize_data(dfs, unified_before, metadata_before) ==
    [unified_data |-> IF unified_rows(dfs) # <<>> THEN <<_clean_unified_data(unified_rows(dfs))>>
                      ELSE unified_before,
     metadata     |-> StoreMetadata(dfs, metadata_before),
     datasets     |-> dfs]

----------------------------------------------------------------------------
(* EnhancedCarbonRAGAgent *)

(* The dictionary _perform_data_analysis returns: error is "" when the key *)
(* is missing, data is None when the key is missing                        *)
Analysis(success, data, output, error) ==
    [success |-> success, data |-> data, output |-> output, error |-> error]

NoAnalysis == Analysis(FALSE, None, Output("", <<"", "">>, <<>>), "")

AnalysisError(error) == Analysis(FALSE, None, Output("", <<"", "">>, <<>>), error)

(* How ask left: raised is "" and answer, visualization are the pair that  *)
(* was returned, or raised names the exception that left the call          *)
Reply(answer, image, raised) == [answer |-> answer, visualization |-> image, raised |-> raised]

NoReply == Reply("", "", "")

(* The steps of ask that call out of the agent and can raise *)
Steps ==
    {"analyze_query", "generate_analysis_code", "_fallback_analysis", "create_visualization",
     "llm.invoke", "_generate_fallback_answer"}

(* The rows of a raw table as (year, total): the first and the second column *)
InventoryRows(df) ==
    [r \in 1..Len(df.rows) |-> [year |-> df.rows[r][1], total |-> df.rows[r][2]]]

(* _fallback_analysis.  Whatever raises inside is caught inside.           *)
_fallback_analysis(query_intent, dfs, raises) ==
    LET found == SelectSeq(dfs, LAMBDA d : d.name = InventoryName)
        AsTable(rows) ==
            Table([i \in 1..Len(rows) |-> Record("", rows[i].year.n, rows[i].total.n)],
                  <<"year", "value">>)
        Known(rows) ==
            SelectSeq(rows, LAMBDA row : row.year.kind # "nan" /\ row.total.kind # "nan")
        Then(rows) ==
            LET filtered_data ==
                    IF query_intent.years # <<>>
                    THEN SelectSeq(rows, LAMBDA row : row.year.kind = "num"
                                            /\ row.year.n \in Range(query_intent.years))
                    ELSE rows
                OfYear(year) == SelectSeq(rows, LAMBDA row : row.year.kind = "num"
                                                   /\ row.year.n = year)
                result_data ==
                    IF query_intent.query_type = "comparison" /\ query_intent.years # <<>>
                    THEN Flatten([i \in 1..Len(query_intent.years) |->
                                    IF OfYear(query_intent.years[i]) # <<>>
                                    THEN <<Head(OfYear(query_intent.years[i]))>> ELSE <<>>])
                    ELSE IF query_intent.query_type = "trend"
                    THEN SortRows(Known(rows), [i \in 1..Len(Known(rows)) |-> Known(rows)[i].year.n])
                    ELSE Known(filtered_data)
            IN IF result_data = <<>> THEN AnalysisError("no data for the years")
               ELSE Analysis(TRUE, AsTable(result_data),
                             Output("inventory analysis", <<"", "">>, <<>>), "")
    IN IF raises THEN AnalysisError("fallback analysis failed")
       ELSE IF found = <<>> \/ Head(found).df.rows = <<>>
       THEN AnalysisError("inventory not found")
       ELSE Then(InventoryRows(Head(found).df))

(* _perform_data_analysis after execute_code returned or raised: the       *)
(* result of the program when it succeeded with a result, else the         *)
(* fallback analysis                                                       *)
analysis_of(returned, code, query_intent, dfs, raises) ==
    IF returned.raised = "" /\ returned.success /\ returned.result # None
    THEN Analysis(TRUE, returned.result, returned.output, "")
    ELSE _fallback_analysis(query_intent, dfs, raises)

(* Mutant of _create_visualization: the result of the analysis is not     *)
(* looked at                                                               *)
create_visualization_unguarded(query_intent, result, raises) ==
    IF raises THEN "" ELSE "image"

(* _create_visualization: "" stands for None *)
_create_visualization(query_intent, result, raises) ==
    IF ~result.success \/ result.data = None THEN ""
    ELSE IF raises THEN ""
    ELSE IF result.data.rows = <<>> THEN ""
    ELSE "image"

(* _generate_fallback_answer: the answer, or the exception it raises when  *)
(* the totals cannot be computed or formatted                              *)
_generate_fallback_answer(text, result, raises) ==
    IF result.error # "" THEN Ok("apology with the error", <<>>)
    ELSE IF result.data # None
    THEN IF result.data.t = "table" /\ result.data.rows # <<>>
         THEN IF "value" \in Range(result.data.cols)
              THEN IF raises THEN Fault("TypeError", <<>>)
                   ELSE Ok("total and mean", <<>>)
              ELSE Ok("number of records", <<>>)
         ELSE Ok("empty data", <<>>)
    ELSE Ok("analysis not completed", <<>>)

(* _generate_answer: the answer of the model, and the fallback answer when *)
(* the call of the model raises                                            *)
_generate_answer(text, query_intent, result, failing) ==
    IF "llm.invoke" \notin failing THEN Ok("answer of the model", <<>>)
    ELSE _generate_fallback_answer(text, result, "_generate_fallback_answer" \in failing)

(* Mutant of ask_except: the handler is for ValueError alone *)
ask_except_value_errors_only(e) ==
    IF e = "ValueError" THEN Reply("error message", "", "") ELSE Reply("", "", e)

(* except Exception as e in ask: the error message and no visualization;   *)
(* an exception that is no Exception leaves the call                       *)
ask_except(e) ==
    IF e \in ExceptionClasses THEN Reply("error message", "", "") ELSE Reply("", "", e)

----------------------------------------------------------------------------
(* The inputs of the model *)

(* The unified table of the comparison scenario, and the context the agent *)
(* passes to execute_code (_perform_data_analysis).                        *)
UnifiedColumns == <<"dataset", "year", "value">>
ScenarioData == Table(<<Record("emission", 2017, 690000), Record("emission", 2021, 676648)>>,
                      UnifiedColumns)
Context(table) == ("unified_data" :> table)
Contexts == {Context(ScenarioData)}

(* Programs handed to execute_code *)
prog_copy ==
    <<Comment(<<"summary">>),
      Assign("result", Method(Name("unified_data"), "copy", <<>>))>>
prog_len ==
    <<Assign("result", Call(Name("len"), <<Name("unified_data")>>))>>
prog_print ==
    <<Assign("result", Name("unified_data")),
      ExprStmt(Call(Name("print"), <<Name("result")>>))>>
prog_key_error ==
    <<Assign("result", Name("unified_data")),
      Assign("x", Subscript(Name("unified_data"), Str("missing")))>>
prog_open ==
    <<Assign("result", Name("unified_data")),
      ExprStmt(Call(Name("open"), <<Str("data.csv")>>))>>
prog_eval ==
    <<Assign("result", Call(Name("eval"), <<Str("1")>>))>>
prog_exec_name ==
    <<Assign("result", Name("unified_data")),
      Assign("run", Name("exec"))>>
prog_getattr ==
    <<Assign("result", Call(Name("getattr"), <<Name("unified_data"), Str("values")>>))>>
prog_import ==
    <<Assign("result", Name("unified_data")),
      Import("os")>>
prog_syntax_error ==
    <<Assign("result", Name("unified_data")),
      Garbage>>
prog_attribute_open ==
    <<Assign("result", Name("unified_data")),
      ExprStmt(Method(Name("pandas"), "open", <<Str("data.csv")>>))>>
prog_string_import ==
    <<Assign("result", Str("import"))>>
prog_comment_import ==
    <<Comment(<<"important">>),
      Assign("result", Name("unified_data"))>>

prog_name_error ==
    <<Assign("result", Name("missing"))>>

Programs ==
    {prog_copy, prog_len, prog_print, prog_key_error, prog_open, prog_eval,
     prog_exec_name, prog_getattr, prog_import, prog_syntax_error,
     prog_attribute_open, prog_string_import, prog_comment_import, prog_name_error}

(* The program cycles of a ledger run: programs that succeed, raise and    *)
(* are rejected, alone and mixed.                                          *)
Workloads ==
    {<<prog_string_import>>,
     <<prog_name_error>>,
     <<prog_import>>,
     <<prog_string_import, prog_name_error>>,
     <<prog_string_import, prog_import>>,
     <<prog_string_import, prog_name_error, prog_string_import, prog_string_import,
       prog_key_error, prog_string_import, prog_string_import, prog_open>>}

----------------------------------------------------------------------------
(* The executor called with freely chosen programs *)

InitExecutor ==
    /\ execution_history = <<>>
    /\ ret = NoReturn
    /\ calls = 0
    /\ appended = 0
    /\ ran = 0
    /\ verdict = Verdict(FALSE, "", "")
    /\ last_code = <<>>
    /\ last_context = <<>>
    /\ arrived = <<>>

(* One caller, and an agent that is constructed already *)
NoThreads ==
    /\ threads = <<>>
    /\ heap = <<>>
    /\ history_ref = 0

NoSingleton ==
    /\ _instance = 1
    /\ _initialized = TRUE
    /\ allocated = 1
    /\ constructed = <<1>>
    /\ loads = 1
    /\ executors = 1

Sequential == NoThreads /\ NoSingleton

(* The parts of the agent around the pipeline, not in use *)
NoVisualization == Visualization(FALSE, <<>>)

NoPreprocessor ==
    /\ datasets = <<>>
    /\ metadata = <<>>
    /\ preprocessor_unified_data = <<>>
    /\ loaded = <<>>
    /\ standardize_runs = 0
    /\ first_unified_data = <<>>
    /\ files = <<>>
    /\ analyze_runs = 0

NoAsk ==
    /\ failures = {}
    /\ analysis_result = NoAnalysis
    /\ fallback_calls = 0
    /\ visualization = ""
    /\ reply = NoReply

NoAgent ==
    /\ needs_viz = NoVisualization
    /\ NoPreprocessor
    /\ NoAsk

NoPipeline ==
    /\ question = <<>>
    /\ stage = ""
    /\ intent = NoIntent
    /\ analysis_code = <<>>
    /\ unified_data = None

Init ==
    /\ builtins_is_module \in BOOLEAN
    /\ workload = <<>>
    /\ InitExecutor
    /\ Sequential
    /\ NoAgent
    /\ NoPipeline

Next ==
    \/ \E code \in Programs, context \in Contexts :
          calls < MaxCalls /\ execute_code(code, context)
          /\ UNCHANGED <<pipeline_vars, agent_vars>>
    \/ clear_history

Spec == Init /\ [][Next]_vars

(* The ledger filled by a cycle of programs, with the executor imported by *)
(* the agent (enhanced_carbon_rag_agent.py)                                *)

InitLedger ==
    /\ builtins_is_module = FALSE
    /\ workload \in Workloads
    /\ InitExecutor
    /\ Sequential
    /\ NoAgent
    /\ NoPipeline

NextLedger ==
    \/ \E context \in Contexts :
          /\ calls < MaxLedgerCalls
          /\ execute_code(workload[(calls % Len(workload)) + 1], context)
          /\ UNCHANGED <<pipeline_vars, agent_vars>>
    \/ clear_history

SpecLedger == InitLedger /\ [][NextLedger]_vars

(* A program that runs to its end, one that raises and one that is rejected *)
ThreadPrograms == {prog_copy, prog_key_error, prog_open}

(* EnhancedCarbonRAGAgent() called again and again by one caller, with     *)
(* programs executed by the agent in between                               *)

MaxConstructions == 3

(* How far __init__ gets when it runs: the key is missing, a component     *)
(* before the executor raises, the data load raises, or nothing does       *)
Outcomes == {"no key", "component raises", "load raises", "ok"}

(* EnhancedCarbonRAGAgent.__new__: cls._instance, made when it is None *)
__new__(instance, made) ==
    IF instance = 0
    THEN [instance |-> made + 1, allocated |-> made + 1]
    ELSE [instance |-> instance, allocated |-> made]

(* Mutant of __init__: the attribute _initialized is not looked at *)
init_unguarded(initialized, outcome) ==
    CASE outcome = "no key" ->
            [initialized |-> initialized, raised |-> "ValueError", executors |-> 0, loads |-> 0]
      [] outcome = "component raises" ->
            [initialized |-> initialized, raised |-> "Exception", executors |-> 0, loads |-> 0]
      [] outcome = "load raises" ->
            [initialized |-> initialized, raised |-> "Exception", executors |-> 1, loads |-> 1]
      [] outcome = "ok" ->
            [initialized |-> TRUE, raised |-> "", executors |-> 1, loads |-> 1]

(* EnhancedCarbonRAGAgent.__init__: whether _initialized is set after it,  *)
(* what it raised, and how many executors and data loads it made           *)
__init__(initialized, outcome) ==
    IF initialized
    THEN [initialized |-> TRUE, raised |-> "", executors |-> 0, loads |-> 0]
    ELSE CASE outcome = "no key" ->
                 [initialized |-> FALSE, raised |-> "ValueError", executors |-> 0, loads |-> 0]
           [] outcome = "component raises" ->
                 [initialized |-> FALSE, raised |-> "Exception", executors |-> 0, loads |-> 0]
           [] outcome = "load raises" ->
                 [initialized |-> FALSE, raised |-> "Exception", executors |-> 1, loads |-> 1]
           [] outcome = "ok" ->
                 [initialized |-> TRUE, raised |-> "", executors |-> 1, loads |-> 1]

(* EnhancedCarbonRAGAgent(): __new__, then __init__ on what it returned.   *)
(* A new SafeCodeExecutor has an empty execution_history.                  *)
Construct(outcome) ==
    /\ Len(constructed) < MaxConstructions
    /\ \E new \in {__new__(_instance, allocated)}, run \in {__init__(_initialized, outcome)} :
          /\ _instance' = new.instance
          /\ allocated' = new.allocated
          /\ _initialized' = run.initialized
          /\ executors' = executors + run.executors
          /\ loads' = loads + run.loads
          /\ constructed' = Append(constructed, IF run.raised = "" THEN new.instance ELSE 0)
          /\ execution_history' = IF run.executors > 0 THEN <<>> ELSE execution_history
          /\ arrived' = IF run.executors > 0 THEN <<>> ELSE arrived
    /\ UNCHANGED <<builtins_is_module, workload, ret, calls, appended, ran, verdict, last_code,
                   last_context, pipeline_vars, agent_vars, thread_vars>>

InitSingleton ==
    /\ builtins_is_module = FALSE
    /\ workload = <<>>
    /\ InitExecutor
    /\ NoThreads
    /\ _instance = 0
    /\ _initialized = FALSE
    /\ allocated = 0
    /\ constructed = <<>>
    /\ loads = 0
    /\ executors = 0
    /\ NoAgent
    /\ NoPipeline

NextSingleton ==
    \/ \E outcome \in Outcomes : Construct(outcome)
    \/ \E code \in ThreadPrograms, context \in Contexts :
          /\ _initialized
          /\ calls < MaxCalls
          /\ execute_code(code, context)
          /\ UNCHANGED <<pipeline_vars, agent_vars>>

SpecSingleton == InitSingleton /\ [][NextSingleton]_vars

(* Two calls of execute_code at the same time, on a ledger that is empty,  *)
(* one short of full, or full                                              *)

(* The ledger after n calls with prog_copy, one after the other *)
Filled(n) ==
    [i \in 1..n |->
        [execute_code_result(prog_copy, Context(ScenarioData), <<>>, 0).saved[1]
            EXCEPT !.timestamp = i]]

InitThreads ==
    /\ builtins_is_module = FALSE
    /\ workload = <<>>
    /\ \E n \in {0, HistoryLimit - 1, HistoryLimit} :
          /\ execution_history = Filled(n)
          /\ calls = n
          /\ appended = n
    /\ arrived = execution_history
    /\ heap = <<execution_history>>
    /\ history_ref = 1
    /\ threads = [t \in Threads |-> Thread("idle", <<>>, 0, <<>>)]
    /\ ret = NoReturn
    /\ ran = 0
    /\ verdict = Verdict(FALSE, "", "")
    /\ last_code = <<>>
    /\ last_context = <<>>
    /\ NoSingleton
    /\ NoAgent
    /\ NoPipeline

NextThreads ==
    \E t \in Threads :
       \/ \E code \in ThreadPrograms, context \in Contexts : ThreadCall(t, code, context)
       \/ ThreadLoad(t)
       \/ ThreadAppend(t)
       \/ ThreadLen(t)
       \/ ThreadSlice(t)
       \/ ThreadStore(t)

SpecThreads == InitThreads /\ [][NextThreads]_vars

----------------------------------------------------------------------------
(* A question taken through analyze_query, generate_analysis_code and      *)
(* execute_code, as _perform_data_analysis does                            *)

(* The example questions of pages/5_AI (example_queries) *)
CorpusQuestions ==
    {<<"emoji", " ", "chong", "bae", "chul", "ryang", "ui", " ", "yeon", "do", "byeol", " ",
       "byeon", "hwa", " ", "chu", "ii", "neun", "?">>,
     <<"emoji", " ", "ee", "neo", "ji", " ", "san", "eop", "gwa", " ", "su", "song", " ",
       "san", "eop", "ui", " ", "bae", "chul", "ryang", " ", "bi", "gyo">>,
     <<"emoji", " ", "2", "0", "1", "7", "nyeon", "gwa", " ", "2", "0", "2", "1", "nyeon", "ui",
       " ", "bae", "chul", "ryang", " ", "cha", "ii", "neun", "?">>,
     <<"emoji", " ", "ga", "jang", " ", "manh", "ii", " ", "bae", "chul", "ha", "neun", " ",
       "bun", "ya", "neun", "?">>,
     <<"emoji", " ", "gam", "chuk", "ryul", "ii", " ", "ga", "jang", " ", "nop", "eun", " ",
       "yeon", "do", "neun", "?">>,
     <<"emoji", " ", "jeon", "che", " ", "de", "ii", "teo", "ee", "seo", " ",
       "pyeong", "gyun", " ", "bae", "chul", "ryang", "eun", "?">>}

(* The questions of the two scenarios: the comparison of 2017 and 2021,    *)
(* and the summary of the data                                             *)
ScenarioQuestion ==
    <<"2", "0", "1", "7", "nyeon", "gwa", " ", "2", "0", "2", "1", "nyeon", " ",
      "bae", "chul", "ryang", " ", "bi", "gyo">>
SummaryQuestion == <<"de", "ii", "teo", " ", "yo", "yak">>

Questions == CorpusQuestions \cup {ScenarioQuestion, SummaryQuestion}

(* Unified tables: the scenario's, one of two datasets, one with no value column *)
MixedData ==
    Table(<<Record("allocation", 2017, 500), Record("allocation", 2021, 400),
            Record("emission", 2017, 690000), Record("emission", 2018, 700000),
            Record("emission", 2021, 676648)>>, UnifiedColumns)
NoValueData == Table(<<Record("emission", 2017, 0)>>, <<"dataset", "year">>)
Tables == {ScenarioData, MixedData, NoValueData}

Analyze ==
    /\ stage = "asked"
    /\ intent' = analyze_query(question)
    /\ stage' = "analyzed"
    /\ UNCHANGED <<process_vars, builtins_is_module, execution_history, ret, calls, appended, ran, verdict,
                   last_code, last_context, arrived, workload, question, analysis_code,
                   unified_data, agent_vars>>

Generate ==
    /\ stage = "analyzed"
    /\ analysis_code' = generate_analysis_code(intent, unified_data.cols)
    /\ stage' = "generated"
    /\ UNCHANGED <<process_vars, builtins_is_module, execution_history, ret, calls, appended, ran, verdict,
                   last_code, last_context, arrived, workload, question, intent, unified_data,
                   agent_vars>>

Execute ==
    /\ stage = "generated"
    /\ execute_code(analysis_code, Context(unified_data))
    /\ unified_data' = ContextAfter(analysis_code, Context(unified_data))["unified_data"]
    /\ stage' = "executed"
    /\ UNCHANGED <<question, intent, analysis_code, agent_vars>>

InitPipeline ==
    /\ builtins_is_module \in BOOLEAN
    /\ workload = <<>>
    /\ InitExecutor
    /\ Sequential
    /\ NoAgent
    /\ question \in Questions
    /\ stage = "asked"
    /\ intent = NoIntent
    /\ analysis_code = <<>>
    /\ unified_data \in Tables

NextPipeline == Analyze \/ Generate \/ Execute

SpecPipeline == InitPipeline /\ [][NextPipeline]_vars

(* A question taken to a program by either generator, and the program     *)
(* through execute_code                                                    *)

(* Questions for the least of the datasets, and one of two lines whose     *)
(* second line is a statement                                              *)
LeastQuestion ==
    <<"bae", "chul", "ryang", "ii", " ", "ga", "jang", " ", "jeok", "eun", " ",
      "bun", "ya", "neun", "?">>
LowestRankQuestion == <<"naj", "eun", " ", "sun", "wi">>
TwoLineQuestion ==
    <<"yo", "yak", "\n">> \o Render(AssignItem("unified_data", Str("value"), Num(0)))
TwoLineRebindQuestion ==
    <<"yo", "yak", "\n">> \o Render(Assign("unified_data", Num(0)))
TwoLineTextQuestion == <<"yo", "yak", "\n", "de", "ii", "teo">>

ProgramQuestions ==
    Questions \cup {LeastQuestion, LowestRankQuestion, TwoLineQuestion, TwoLineRebindQuestion,
                    TwoLineTextQuestion}

(* A unified table of more (year, dataset) groups than head(10) shows *)
HeadRows == 10
ManyGroupsData ==
    Table([i \in 1..(HeadRows + 1) |-> Record("emission", 2009 + i, 100 * i)], UnifiedColumns)

ProgramTables == Tables \cup {ManyGroupsData}

GenerateFromQuery ==
    /\ stage = "asked"
    /\ analysis_code' = generate_code_from_query(question, unified_data.cols)
    /\ stage' = "generated"
    /\ UNCHANGED <<process_vars, builtins_is_module, execution_history, ret, calls, appended, ran, verdict,
                   last_code, last_context, arrived, workload, question, intent, unified_data,
                   agent_vars>>

InitPrograms ==
    /\ builtins_is_module \in BOOLEAN
    /\ workload = <<>>
    /\ InitExecutor
    /\ Sequential
    /\ NoAgent
    /\ question \in ProgramQuestions
    /\ stage = "asked"
    /\ intent = NoIntent
    /\ analysis_code = <<>>
    /\ unified_data \in ProgramTables

NextPrograms == Analyze \/ Generate \/ GenerateFromQuery \/ Execute

SpecPrograms == InitPrograms /\ [][NextPrograms]_vars

(* generate_analysis_code called with freely chosen intents, and the       *)
(* program through execute_code                                            *)

(* QueryType *)
QueryTypes ==
    {"comparison", "trend", "ranking", "statistics", "specific_value", "correlation",
     "prediction", "summary", "unknown"}

Aggregations == {"sum", "mean", "max", "min"}

Intents ==
    {[NoIntent EXCEPT !.query_type = query_type, !.aggregation = aggregation, !.years = years,
                      !.chart_type = "bar", !.confidence = 5] :
        query_type \in QueryTypes, aggregation \in Aggregations,
        years \in {<<>>, <<2017>>, <<2017, 2021>>}}

InitIntents ==
    /\ builtins_is_module \in BOOLEAN
    /\ workload = <<>>
    /\ InitExecutor
    /\ Sequential
    /\ NoAgent
    /\ question = <<>>
    /\ stage = "analyzed"
    /\ intent \in Intents
    /\ analysis_code = <<>>
    /\ unified_data \in {MixedData, ManyGroupsData}

NextIntents == Generate \/ Execute

SpecIntents == InitIntents /\ [][NextIntents]_vars

(* Questions made of years, digits and other characters, for analyze_query alone *)
MaxPieces == 4

Pieces ==
    {<<"2", "0", "2", "1">>, <<"1", "9", "9", "0">>, <<"2", "0", "3", "1">>,
     <<"5">>, <<"nyeon">>, <<" ">>}

RECURSIVE Concatenations(_)
Concatenations(n) ==
    IF n = 0 THEN {<<>>}
    ELSE Concatenations(n - 1) \cup {q \o piece : q \in Concatenations(n - 1), piece \in Pieces}

InitYears ==
    /\ builtins_is_module \in BOOLEAN
    /\ workload = <<>>
    /\ InitExecutor
    /\ Sequential
    /\ NoAgent
    /\ question \in Concatenations(MaxPieces)
    /\ stage = "asked"
    /\ intent = NoIntent
    /\ analysis_code = <<>>
    /\ unified_data = None

SpecYears == InitYears /\ [][Analyze]_vars

(* Questions made of keywords of every category, for analyze_query and     *)
(* needs_visualization, which ask calls one after the other                *)
NeedsVisualization ==
    /\ stage = "analyzed"
    /\ needs_viz' = needs_visualization(question)
    /\ stage' = "visualization decided"
    /\ UNCHANGED <<process_vars, builtins_is_module, execution_history, ret, calls, appended, ran, verdict,
                   last_code, last_context, arrived, workload, question, intent,
                   analysis_code, unified_data, preprocessor_vars, ask_vars>>

MaxWords == 3

WordPieces ==
    {<<"bi", "gyo">>, <<"V", "S">>, <<"chu", "ii">>, <<"sun", "wi">>, <<"pyeong", "gyun">>,
     <<"gwan", "gye">>, <<"eol", "ma">>, <<"de", "ii", "teo">>, <<"geu", "rae", "peu">>,
     <<"2", "0", "2", "1", "nyeon">>, <<" ">>}

RECURSIVE Phrases(_)
Phrases(n) ==
    IF n = 0 THEN {<<>>}
    ELSE Phrases(n - 1) \cup {q \o piece : q \in Phrases(n - 1), piece \in WordPieces}

InitWords ==
    /\ builtins_is_module = FALSE
    /\ workload = <<>>
    /\ InitExecutor
    /\ Sequential
    /\ NoAgent
    /\ question \in Phrases(MaxWords)
    /\ stage = "asked"
    /\ intent = NoIntent
    /\ analysis_code = <<>>
    /\ unified_data = None

NextWords == Analyze \/ NeedsVisualization

SpecWords == InitWords /\ [][NextWords]_vars

----------------------------------------------------------------------------
(* The raw tables normalised again and again *)

MaxRuns == 2

Cells == {NumCell(12), NumCell(900), StrCell(<<"1", ",", "2", "3", "4">>), NaN,
          StrCell(<<"n", "/", "a">>)}

(* Year columns in descending order, and a column whose digits give no year *)
EmissionTable(first, second) ==
    RawTable(<<<<"2", "0", "2", "1">>, <<"2", "0", "2", "0", "nyeon">>,
               <<"1", "2", "3", "4", "5">>>>,
             <<<<first, second, NumCell(7)>>>>)

AllocationTable ==
    RawTable(<<<<"gu", "bun">>, <<"2", "0", "1", "9">>, <<"2", "0", "2", "0">>>>,
             <<<<StrCell(<<"A">>), NumCell(10), NumCell(11)>>,
               <<StrCell(<<"B">>), NumCell(12), NumCell(13)>>,
               <<StrCell(<<"C">>), StrCell(<<"1", "3">>), NumCell(14)>>>>)

(* A table without year columns *)
CompanyTable ==
    RawTable(<<<<"gi", "eop">>>>, <<<<StrCell(<<"A">>)>>, <<StrCell(<<"B">>)>>>>)

(* A table whose only label with digits has a code in it, not a year *)
CodeTable ==
    RawTable(<<<<"gi", "eop">>, <<"ko", "deu", "1", "2", "3", "4", "5">>>>,
             <<<<StrCell(<<"A">>), NumCell(3)>>, <<StrCell(<<"B">>), NumCell(4)>>>>)

Dataset(name, df) == [name |-> name, df |-> df]

DatasetCollections ==
    {<<Dataset("emission", EmissionTable(first, second)), Dataset("allocation", AllocationTable)>>
        : first \in Cells, second \in Cells}
    \cup {<<Dataset("emission", EmissionTable(first, second)), Dataset("company", CompanyTable),
            Dataset("allocation", AllocationTable)>> : first \in Cells, second \in Cells}
    \cup {<<Dataset("company", CompanyTable)>>,
          <<Dataset("code", CodeTable), Dataset("allocation", AllocationTable)>>}

Standardize ==
    /\ standardize_runs < MaxRuns
    /\ \E done \in {standardize_data(datasets, preprocessor_unified_data, metadata)} :
          /\ preprocessor_unified_data' = done.unified_data
          /\ metadata' = done.metadata
          /\ datasets' = done.datasets
          /\ first_unified_data' =
                IF standardize_runs = 0 THEN done.unified_data ELSE first_unified_data
    /\ standardize_runs' = standardize_runs + 1
    /\ UNCHANGED <<process_vars, builtins_is_module, execution_history, ret, calls, appended, ran, verdict,
                   last_code, last_context, arrived, workload, pipeline_vars, needs_viz,
                   loaded, files, analyze_runs, ask_vars>>

InitNormalize ==
    /\ builtins_is_module = FALSE
    /\ workload = <<>>
    /\ InitExecutor
    /\ Sequential
    /\ NoPipeline
    /\ needs_viz = NoVisualization
    /\ NoAsk
    /\ datasets \in DatasetCollections
    /\ loaded = datasets
    /\ metadata = <<>>
    /\ preprocessor_unified_data = <<>>
    /\ standardize_runs = 0
    /\ first_unified_data = <<>>
    /\ files = <<>>
    /\ analyze_runs = 0

SpecNormalize == InitNormalize /\ [][Standardize]_vars

(* analyze_all_datasets over the files of the data folder, then           *)
(* standardize_data, as _load_and_process_data calls them                  *)

MaxFiles == 3

(* The inventory with the years in the first column, the inventory with    *)
(* the years as labels, and one whose first column has a value twice       *)
InventoryByRows ==
    RawTable(<<<<"gu", "bun">>, <<"chong">>, <<"sun">>>>,
             <<<<NumCell(2017), NumCell(690000), NumCell(650000)>>,
               <<NumCell(2018), NumCell(700000), NaN>>,
               <<NumCell(2021), NumCell(676648), NumCell(640000)>>>>)
InventoryByColumns ==
    RawTable(<<<<"yeon", "do">>, <<"chong">>, <<"sun">>>>,
             <<<<StrCell(<<"2", "0", "1", "7", "nyeon">>), NumCell(690000), NumCell(650000)>>,
               <<StrCell(<<"2", "0", "2", "1", "nyeon">>), NumCell(676648), NumCell(640000)>>>>)
InventoryTwice ==
    RawTable(<<<<"yeon", "do">>, <<"chong">>, <<"sun">>>>,
             <<<<StrCell(<<"A">>), NumCell(1), NumCell(2)>>,
               <<StrCell(<<"A">>), NumCell(3), NumCell(4)>>>>)

NoTable == RawTable(<<>>, <<>>)

Files ==
    {File(InventoryName, "table", InventoryByRows),
     File(InventoryName, "table", InventoryByColumns),
     File(InventoryName, "table", InventoryTwice),
     File("allocation", "table", AllocationTable),
     File("company", "table", CompanyTable),
     File("allocation", "malformed", NoTable),
     File("company", "empty", NoTable)}

(* The files of a folder: each name once *)
RECURSIVE Folders(_)
Folders(n) ==
    IF n = 0 THEN {<<>>}
    ELSE Folders(n - 1)
         \cup {Append(folder, file) : folder \in Folders(n - 1), file \in Files}

FileCollections ==
    {folder \in Folders(MaxFiles) :
        \A i, j \in 1..Len(folder) : i # j => folder[i].name # folder[j].name}

AnalyzeAll ==
    /\ analyze_runs < MaxRuns
    /\ standardize_runs = 0
    /\ \E done \in {analyze_all_datasets(files, datasets)} :
          /\ datasets' = done
          /\ loaded' = done
    /\ analyze_runs' = analyze_runs + 1
    /\ UNCHANGED <<process_vars, builtins_is_module, executor_vars, workload, pipeline_vars, needs_viz,
                   metadata, preprocessor_unified_data, standardize_runs, first_unified_data,
                   files, ask_vars>>

StandardizeLoaded ==
    /\ analyze_runs >= 1
    /\ Standardize

InitLoad ==
    /\ builtins_is_module = FALSE
    /\ workload = <<>>
    /\ InitExecutor
    /\ Sequential
    /\ NoPipeline
    /\ needs_viz = NoVisualization
    /\ NoAsk
    /\ files \in FileCollections
    /\ analyze_runs = 0
    /\ datasets = <<>>
    /\ loaded = <<>>
    /\ metadata = <<>>
    /\ preprocessor_unified_data = <<>>
    /\ standardize_runs = 0
    /\ first_unified_data = <<>>

NextLoad == AnalyzeAll \/ StandardizeLoaded

SpecLoad == InitLoad /\ [][NextLoad]_vars

(* ask: a question through every step of the agent, with steps that raise *)

(* The inventory as a raw table: the year, the total, and a row without total *)
InventoryTable ==
    RawTable(<<<<"yeon", "do">>, <<"chong", "bae", "chul", "ryang">>>>,
             <<<<NumCell(2017), NumCell(690000)>>, <<NumCell(2018), NaN>>,
               <<NumCell(2021), NumCell(676648)>>>>)

AskDatasets ==
    {<<Dataset("allocation", AllocationTable), Dataset(InventoryName, InventoryTable)>>,
     <<Dataset("allocation", AllocationTable)>>}

(* A unified table without rows *)
EmptyData == Table(<<>>, UnifiedColumns)

TrendGraphQuestion ==
    <<"bae", "chul", "ryang", " ", "chu", "ii", " ", "geu", "rae", "peu">>
YearSummaryQuestion == <<"1", "9", "9", "5", "nyeon", " ", "yo", "yak">>

AskQuestions == {ScenarioQuestion, SummaryQuestion, TrendGraphQuestion, YearSummaryQuestion}

(* A step raised and the handler of ask took it *)
AskExcept(e) ==
    /\ reply' = ask_except(e)
    /\ stage' = "returned"
    /\ UNCHANGED <<process_vars, builtins_is_module, executor_vars, workload, question, intent, analysis_code,
                   unified_data, needs_viz, preprocessor_vars, failures, analysis_result,
                   fallback_calls, visualization>>

AnalyzeRaises ==
    /\ stage = "asked"
    /\ "analyze_query" \in failures
    /\ AskExcept("AttributeError")

AskAnalyze ==
    /\ "analyze_query" \notin failures
    /\ Analyze

(* _perform_data_analysis without a table, or with a table without rows *)
NoData ==
    /\ stage = "visualization decided"
    /\ unified_data = None \/ unified_data.rows = <<>>
    /\ analysis_result' = AnalysisError("no data to analyse")
    /\ stage' = "analysis done"
    /\ UNCHANGED <<process_vars, builtins_is_module, executor_vars, workload, question, intent, analysis_code,
                   unified_data, needs_viz, preprocessor_vars, failures, fallback_calls,
                   visualization, reply>>

(* generate_analysis_code in _perform_data_analysis; when it raises, the   *)
(* handler of _perform_data_analysis calls _fallback_analysis              *)
AskGenerate ==
    /\ stage = "visualization decided"
    /\ ~(unified_data = None \/ unified_data.rows = <<>>)
    /\ IF "generate_analysis_code" \in failures
       THEN /\ analysis_result' =
                  _fallback_analysis(intent, datasets, "_fallback_analysis" \in failures)
            /\ fallback_calls' = fallback_calls + 1
            /\ stage' = "analysis done"
            /\ UNCHANGED analysis_code
       ELSE /\ analysis_code' = generate_analysis_code(intent, unified_data.cols)
            /\ stage' = "generated"
            /\ UNCHANGED <<analysis_result, fallback_calls>>
    /\ UNCHANGED <<process_vars, builtins_is_module, executor_vars, workload, question, intent,
                   unified_data, needs_viz, preprocessor_vars, failures, visualization, reply>>

(* The return of _perform_data_analysis after execute_code *)
AnalysisResult ==
    /\ stage = "executed"
    /\ IF ret.raised # "" /\ ret.raised \notin ExceptionClasses
       THEN /\ reply' = ask_except(ret.raised)
            /\ stage' = "returned"
            /\ UNCHANGED <<analysis_result, fallback_calls>>
       ELSE /\ analysis_result' = analysis_of(ret, analysis_code, intent, datasets,
                                              "_fallback_analysis" \in failures)
            /\ fallback_calls' =
                  IF ret.raised = "" /\ ret.success /\ ret.result # None
                  THEN fallback_calls ELSE fallback_calls + 1
            /\ stage' = "analysis done"
            /\ UNCHANGED reply
    /\ UNCHANGED <<process_vars, builtins_is_module, executor_vars, workload, question, intent, analysis_code,
                   unified_data, needs_viz, preprocessor_vars, failures, visualization>>

CreateVisualization ==
    /\ stage = "analysis done"
    /\ visualization' =
          IF needs_viz.needed
          THEN _create_visualization(intent, analysis_result, "create_visualization" \in failures)
          ELSE ""
    /\ stage' = "visualized"
    /\ UNCHANGED <<process_vars, builtins_is_module, executor_vars, workload, question, intent, analysis_code,
                   unified_data, needs_viz, preprocessor_vars, failures, analysis_result,
                   fallback_calls, reply>>

(* _generate_answer and the return of ask *)
GenerateAnswer ==
    /\ stage = "visualized"
    /\ \E answer \in {_generate_answer(question, intent, analysis_result, failures)} :
          reply' = IF answer.ok THEN Reply(answer.v, visualization, "")
                   ELSE ask_except(answer.fault)
    /\ stage' = "returned"
    /\ UNCHANGED <<process_vars, builtins_is_module, executor_vars, workload, question, intent, analysis_code,
                   unified_data, needs_viz, preprocessor_vars, failures, analysis_result,
                   fallback_calls, visualization>>

InitAsk ==
    /\ builtins_is_module \in BOOLEAN
    /\ workload = <<>>
    /\ InitExecutor
    /\ Sequential
    /\ question \in AskQuestions
    /\ stage = "asked"
    /\ intent = NoIntent
    /\ analysis_code = <<>>
    /\ unified_data \in {ScenarioData, NoValueData, EmptyData, None}
    /\ needs_viz = NoVisualization
    /\ datasets \in AskDatasets
    /\ loaded = datasets
    /\ metadata = <<>>
    /\ preprocessor_unified_data = <<>>
    /\ standardize_runs = 0
    /\ first_unified_data = <<>>
    /\ files = <<>>
    /\ analyze_runs = 0
    /\ failures \in SUBSET Steps
    /\ analysis_result = NoAnalysis
    /\ fallback_calls = 0
    /\ visualization = ""
    /\ reply = NoReply

NextAsk ==
    \/ AskAnalyze
    \/ AnalyzeRaises
    \/ NeedsVisualization
    \/ NoData
    \/ AskGenerate
    \/ Execute
    \/ AnalysisResult
    \/ CreateVisualization
    \/ GenerateAnswer

SpecAsk == InitAsk /\ [][NextAsk]_vars

----------------------------------------------------------------------------
(* The execution history *)

(* C1: the execution history never holds more than 100 records, whatever   *)
(* mix of successful, failing and rejected calls and of clear_history came *)
(* before.                                                                 *)
C1_HistoryBounded == Len(execution_history) <= HistoryLimit

(* More than 100 records were appended, by a mix of outcomes, and the      *)
(* history is full.                                                        *)
C1_Witness ==
    /\ Len(arrived) > HistoryLimit
    /\ Len(execution_history) = HistoryLimit
    /\ \E i, j \in 1..HistoryLimit :
          execution_history[i].success /\ ~execution_history[j].success
    /\ calls > appended

(* C2: eviction is first in, first out: the history is the last 100 of the *)
(* records appended since it was last empty, in arrival order, and all of  *)
(* them when there are at most 100.                                        *)
C2_Fifo ==
    LET n == Len(arrived)
    IN execution_history =
          IF n > HistoryLimit THEN SubSeq(arrived, n - HistoryLimit + 1, n) ELSE arrived

C2_Witness ==
    /\ Len(arrived) = HistoryLimit + 2
    /\ execution_history[1] = arrived[3]
    /\ execution_history[1] # arrived[1]

----------------------------------------------------------------------------
(* One call of execute_code *)

(* C3 as stated: every call of execute_code appends exactly one record, so *)
(* the number of records ever appended equals the number of calls.         *)
C3_OneRecordPerCall == appended = calls

(* C3 as amended: a call whose program passes validation appends exactly   *)
(* one record, whether it ends in a fault or succeeds, and a call whose    *)
(* program is rejected appends none.                                       *)
C3_OneRecordPerValidatedCall ==
    [][calls' = calls + 1 =>
          /\ appended' = appended + (IF validate_code(last_code').safe THEN 1 ELSE 0)
          /\ Len(arrived') = Len(arrived) + (IF validate_code(last_code').safe THEN 1 ELSE 0)]_vars

(* A rejected call after a call that raised: two calls, one record *)
C3_Witness ==
    /\ calls = 2
    /\ ~verdict.safe
    /\ appended = 1
    /\ Len(execution_history) = 1
    /\ ~execution_history[1].success

(* C4: a rejected program returns (False, None, failure message) and none  *)
(* of its statements is executed; statements are executed only when the    *)
(* whole program has no violation.                                         *)
C4_ValidatedBeforeExecuted ==
    calls > 0 =>
       /\ ~verdict.safe =>
             /\ ran = 0
             /\ ret = Return(FALSE, None, Output("validation failed", verdict.message, <<>>), "")
       /\ ran > 0 =>
             /\ verdict.safe
             /\ ~HasSyntaxError(last_code)
             /\ \A i \in 1..Len(Walk(<<parse(last_code)>>)) :
                   Violation(Walk(<<parse(last_code)>>)[i]) = <<>>

(* A program whose first statement is harmless and whose second is a       *)
(* forbidden call was rejected.                                            *)
C4_Witness ==
    /\ calls > 0
    /\ last_code = prog_open
    /\ ~verdict.safe
    /\ ran = 0

(* The tokens that contain the characters "import" *)
ImportWords == {"import", "__import__", "important"}

(* The text contains 'import', 'eval(', 'exec(' or 'open(' *)
HasForbiddenText(text) ==
    \/ \E i \in 1..Len(text) : text[i] \in ImportWords
    \/ \E i \in 1..(Len(text) - 1) : text[i] \in {"eval", "exec", "open"} /\ text[i + 1] = "("

(* The program has an import statement or a bare name of the deny-list *)
HasForbiddenNode(code) ==
    \E i \in 1..Len(Walk(<<parse(code)>>)) :
       LET node == Walk(<<parse(code)>>)[i]
       IN \/ node.kind = "Import"
          \/ node.kind = "Name" /\ node.id \in forbidden_keywords

(* C5 as stated: validate_code rejects every program whose text contains   *)
(* 'import', 'eval(', 'exec(' or 'open(', wherever the substring occurs.   *)
C5_RejectsForbiddenText ==
    calls > 0 /\ HasForbiddenText(Text(last_code)) => ~verdict.safe

(* C5 as amended: validate_code rejects every program that has an import   *)
(* statement or uses a name of the deny-list (eval, exec, open, ...) as a  *)
(* bare name, called or not, and every program that does not parse; it     *)
(* accepts every other program, also one that has these substrings in an   *)
(* attribute call, a string literal or a comment.                          *)
C5_RejectsForbiddenNames ==
    calls > 0 => (~verdict.safe <=> (HasSyntaxError(last_code) \/ HasForbiddenNode(last_code)))

(* 'exec' used as a bare name without a call was rejected *)
C5_Witness ==
    /\ calls > 0
    /\ last_code = prog_exec_name
    /\ ~verdict.safe

(* The run of the last program in the scope it was given *)
LastRun == execute_exec(last_code, last_context)

(* C6: when a validated program raises, execute_code returns (False, None, *)
(* message naming the fault) and the record of the call has success false  *)
(* and no result, also when the program had bound result before the fault. *)
C6_FaultCaptured ==
    [][calls' = calls + 1 /\ verdict'.safe /\ ~LastRun'.ok =>
          /\ ret' = Return(FALSE, None,
                           Output("execution error", <<LastRun'.fault, "">>, <<>>), "")
          /\ Len(arrived') = Len(arrived) + 1
          /\ Last(execution_history') = Last(arrived')
          /\ Last(execution_history').timestamp = calls'
          /\ ~Last(execution_history').success
          /\ Last(execution_history').result = None]_vars

(* The program bound result and then raised *)
C6_Witness ==
    /\ calls > 0
    /\ verdict.safe
    /\ ~LastRun.ok
    /\ "result" \in DOMAIN LastRun.scope
    /\ ret.result = None

(* C8: the scope of a validated program is the five modules, every         *)
(* allow-listed built-in and the caller's bindings, and nothing else; each *)
(* allow-listed built-in resolves and no import, open or reflection        *)
(* primitive does.                                                         *)
C8_ScopeHasAllowedBuiltins ==
    calls > 0 /\ verdict.safe =>
       LET scope == _prepare_context(last_context)
       IN /\ DOMAIN scope = allowed_modules \cup allowed_builtins \cup DOMAIN last_context
          /\ \A b \in allowed_builtins : Eval(Name(b), scope).ok
          /\ \A f \in forbidden_keywords : ~Eval(Name(f), scope).ok

----------------------------------------------------------------------------
(* Questions *)

(* C7: for every example question the generated program, run by            *)
(* execute_code, lets no exception leave the call: the call returns        *)
(* success, or failure with the fault of the program captured.             *)
C7_CorpusNeverRaises ==
    stage = "executed" /\ question \in CorpusQuestions =>
       /\ ret.raised = ""
       /\ verdict.safe
       /\ \/ ret.success /\ LastRun.ok
          \/ /\ ~ret.success
             /\ ~LastRun.ok
             /\ ret.output = Output("execution error", <<LastRun.fault, "">>, <<>>)

(* An example question whose program raised, and the fault was captured *)
C7_Witness ==
    /\ stage = "executed"
    /\ question \in CorpusQuestions
    /\ ~ret.success
    /\ ret.output.kind = "execution error"
    /\ ret.output.message[1] = "NameError"

(* C9: for the table {(2017, 690000), (2021, 676648)} and the question     *)
(* that compares 2017 and 2021, the intent is a comparison of the years    *)
(* [2017, 2021], the program groups by year, and execute_code returns      *)
(* success with the two rows and their values unchanged.                   *)
C9_ComparisonScenario ==
    stage = "executed" /\ question = ScenarioQuestion /\ unified_data = ScenarioData =>
       /\ intent.query_type = "comparison"
       /\ intent.years = <<2017, 2021>>
       /\ \E i \in 1..Len(analysis_code) :
             analysis_code[i] =
                Assign("comparison_result", GroupBy("filtered_data", Str("year"), "sum"))
       /\ ret.success
       /\ ret.result.t = "table"
       /\ ret.result.rows = <<Record("", 2017, 690000), Record("", 2021, 676648)>>

(* The digit runs of a text, from left to right *)
RECURSIVE DigitRuns(_, _)
DigitRuns(text, run) ==
    IF text = <<>> THEN (IF run = <<>> THEN <<>> ELSE <<run>>)
    ELSE IF Head(text) \in Digits THEN DigitRuns(Tail(text), Append(run, Head(text)))
    ELSE (IF run = <<>> THEN <<>> ELSE <<run>>) \o DigitRuns(Tail(text), <<>>)

(* The standalone 4-digit tokens of a text that lie in [1990, 2030] *)
StandaloneYears(text) ==
    LET runs == SelectSeq(DigitRuns(text, <<>>), LAMBDA run : Len(run) = 4)
        years == {ToInt(runs[i]) : i \in 1..Len(runs)}
    IN {year \in years : 1990 <= year /\ year <= 2030}

(* C10: the years of the intent are the standalone 4-digit tokens of the   *)
(* question in [1990, 2030], ascending and without duplicates; digits of a *)
(* longer digit run contribute no year.                                    *)
C10_StandaloneYears ==
    stage = "analyzed" =>
       /\ Range(intent.years) = StandaloneYears(question)
       /\ \A i, j \in 1..Len(intent.years) : i < j => intent.years[i] < intent.years[j]

----------------------------------------------------------------------------
(* Classification *)

(* The categories of _classify_query_type in the order they are tried *)
Categories ==
    <<[name |-> "comparison",     keywords |-> comparison_keywords],
      [name |-> "trend",          keywords |-> trend_keywords],
      [name |-> "ranking",        keywords |-> ranking_keywords],
      [name |-> "statistics",     keywords |-> statistics_keywords],
      [name |-> "correlation",    keywords |-> correlation_keywords],
      [name |-> "specific_value", keywords |-> specific_value_pattern]>>

(* The category matches the question, capitals read as small letters *)
Matches(k, text) == ContainsAny(Lower(text), Categories[k].keywords)

C13_SummaryScenario ==
    stage \in {"generated", "executed"} /\ question = SummaryQuestion =>
       /\ intent.query_type = "summary"
       /\ intent.years = <<>>
       /\ intent.confidence = 6
       /\ \E i \in 1..Len(analysis_code) :
             analysis_code[i] =
                Assign("basic_result",
                       GroupBy("filtered_data", ListOf(<<Str("year"), Str("dataset")>>), "sum"))

----------------------------------------------------------------------------
(* Normalisation *)

(* C14: standardize_data run again over the same raw tables returns the    *)
(* records of the first run, the same records in the same order with the   *)
(* same outlier flags; no run changes the raw tables and no run keeps      *)
(* records of an earlier run.                                              *)
C14_NormalizationIdempotent ==
    standardize_runs >= 1 =>
       /\ preprocessor_unified_data = first_unified_data
       /\ datasets = loaded
       /\ first_unified_data = standardize_data(loaded, <<>>, <<>>).unified_data

(* The second run over tables that give an outlier, a record without value *)
(* and records to be sorted                                                *)
C14_Witness ==
    /\ standardize_runs = 2
    /\ preprocessor_unified_data # <<>>
    /\ \E i \in 1..Len(preprocessor_unified_data[1]) : preprocessor_unified_data[1][i].is_outlier
    /\ Len(preprocessor_unified_data[1]) < Len(unified_rows(datasets))
    /\ preprocessor_unified_data[1] # unified_rows(datasets)
    /\ preprocessor_unified_data[1][1].dataset = "allocation"

(* C15: execute_code leaves the table bound as unified_data, and the       *)
(* unified_data of the agent, as they were, for every program of           *)
(* generate_analysis_code and of generate_code_from_query, whether the run *)
(* succeeds or not.                                                        *)
C15_TableReadOnly ==
    stage = "executed" =>
        /\ unified_data = last_context["unified_data"]
        /\ LastRun.shared["unified_data"] = ByReference(last_context)["unified_data"]

(* C16: every call of ask returns a pair of an answer and a visualization  *)
(* and raises nothing, whatever step failed inside it; and a program that  *)
(* execute_code did not run to a result is followed by _fallback_analysis, *)
(* whose dictionary, not the fault of the program, is the analysis result. *)
C16_AskNeverRaises ==
    /\ stage = "returned" =>
          /\ reply.raised = ""
          /\ reply.answer # ""
          /\ reply.answer = "error message" => reply.visualization = ""
    /\ (stage \in {"analysis done", "visualized", "returned"} /\ calls = 1
            /\ ~(ret.success /\ ret.result # None)) =>
          /\ fallback_calls = 1
          /\ analysis_result =
                _fallback_analysis(intent, datasets, "_fallback_analysis" \in failures)
          /\ analysis_result.output.kind # "execution error"

(* The program raised, the fallback analysis, the rendering and the model  *)
(* failed too, and ask returned the apology with no visualization          *)
C16_Witness ==
    /\ stage = "returned"
    /\ calls = 1
    /\ ~ret.success
    /\ ret.output.kind = "execution error"
    /\ {"_fallback_analysis", "create_visualization", "llm.invoke"} \subseteq failures
    /\ fallback_calls = 1
    /\ reply = Reply("apology with the error", "", "")

----------------------------------------------------------------------------
(* Generated programs *)

(* The nodes of a program *)
Nodes(code) == Range(Walk(<<parse(code)>>))

(* The calls of a method in a program, each as the sequence of its arguments *)
CallsOf(code, method) ==
    {Tail(node.kids) : node \in {n \in Nodes(code) :
        n.kind = "Call" /\ n.kids[1].kind = "Attribute" /\ n.kids[1].id = method}}

(* The aggregate functions applied in a program *)
AggregatesOf(code) ==
    {node.kids[1].id : node \in {n \in Nodes(code) :
        n.kind = "Call" /\ n.kids[1].kind = "Attribute" /\ n.kids[1].id \in Aggregations}}

(* C17: in every branch of generate_analysis_code the aggregate function   *)
(* written into the program is intent.aggregation, for each of sum, mean,  *)
(* max and min.                                                            *)
C17_AggregationFromIntent ==
    stage \in {"generated", "executed"} =>
        AggregatesOf(analysis_code) = {intent.aggregation}

(* The question asks for the least or the lowest *)
AsksLeast(text) ==
    ContainsAny(Lower(text), {<<"jeok", "eun">>, <<"naj", "eun">>, <<"choe", "so">>})

(* C18: for a ranking intent the program of generate_analysis_code groups  *)
(* by dataset and sorts by value, descending, but ascending when the       *)
(* question asks for the least or the lowest.                              *)
C18_RankingOrder ==
    (stage \in {"generated", "executed"} /\ intent.query_type = "ranking") =>
        /\ CallsOf(analysis_code, "groupby") = {<<Str("dataset")>>}
        /\ CallsOf(analysis_code, "sort_values") = {<<Str("value"), Bool(AsksLeast(question))>>}

(* C19: the branch of generate_analysis_code follows from query_type       *)
(* alone: comparison groups by year and does not sort, trend groups by     *)
(* year and sorts by year ascending, ranking groups by dataset, and every  *)
(* other query type groups by year and dataset, the default branch.        *)
C19_BranchFromQueryType ==
    stage \in {"generated", "executed"} =>
        /\ intent.query_type = "comparison" =>
              /\ CallsOf(analysis_code, "groupby") = {<<Str("year")>>}
              /\ CallsOf(analysis_code, "sort_values") = {}
        /\ intent.query_type = "trend" =>
              /\ CallsOf(analysis_code, "groupby") = {<<Str("year")>>}
              /\ CallsOf(analysis_code, "sort_values") = {<<Str("year")>>}
        /\ intent.query_type = "ranking" =>
              CallsOf(analysis_code, "groupby") = {<<Str("dataset")>>}
        /\ intent.query_type \notin {"comparison", "trend", "ranking"} =>
              /\ CallsOf(analysis_code, "groupby") = {<<ListOf(<<Str("year"), Str("dataset")>>)>>}
              /\ CallsOf(analysis_code, "sort_values") = {}
              /\ CallsOf(analysis_code, "head") = {<<Num(HeadRows)>>}

(* The program for an unknown query type with years and the mean was       *)
(* generated, and it is the default one                                    *)
C19_Witness ==
    /\ stage = "generated"
    /\ intent.query_type = "unknown"
    /\ intent.aggregation = "mean"
    /\ intent.years = <<2017, 2021>>
    /\ CallsOf(analysis_code, "groupby") = {<<ListOf(<<Str("year"), Str("dataset")>>)>>}

(* C20: in the default branch the table execute_code returns is the first  *)
(* 10 rows of the aggregate grouped by year and dataset: it never has more *)
(* than 10 rows.                                                           *)
C20_ResultTruncated ==
    (stage = "executed" /\ Branch(intent.query_type) = "default" /\ ret.success) =>
        /\ ret.result.t = "table"
        /\ Len(ret.result.rows) <= HeadRows

----------------------------------------------------------------------------
(* Routing and conversion of the raw tables *)

(* The text has four digits in a row that give a year of 1990..2030 *)
HasYearToken(text) ==
    \E k \in 0..(Len(text) - YearPatternLength) :
        /\ \A i \in 1..YearPatternLength : text[k + i] \in Digits
        /\ MinYear <= ToInt(SubSeq(text, k + 1, k + YearPatternLength))
        /\ ToInt(SubSeq(text, k + 1, k + YearPatternLength)) <= MaxYear

HasYearLabel(df) == \E c \in 1..Len(df.columns) : HasYearToken(df.columns[c])

(* The records of a dataset in the unified table *)
RecordsOf(name) ==
    IF preprocessor_unified_data = <<>> THEN <<>>
    ELSE SelectSeq(preprocessor_unified_data[1], LAMBDA record : record.dataset = name)

(* C21: a table none of whose labels has a 4-digit token in [1990, 2030]   *)
(* gives no record and is stored in the metadata under its name; a table   *)
(* with such a label is not stored in the metadata; every table takes      *)
(* exactly one of the two routes.                                          *)
C21_RoutedByLabels ==
    standardize_runs >= 1 =>
        \A d \in 1..Len(datasets) :
            /\ ~HasYearLabel(datasets[d].df) =>
                  /\ RecordsOf(datasets[d].name) = <<>>
                  /\ datasets[d].name \in DOMAIN metadata
            /\ HasYearLabel(datasets[d].df) => datasets[d].name \notin DOMAIN metadata

(* The columns of a table whose label has a year, and the other columns *)
YearBearing(df) == SelectSeq([c \in 1..Len(df.columns) |-> c],
                             LAMBDA c : HasYearToken(df.columns[c]))
NotYearBearing(df) == SelectSeq([c \in 1..Len(df.columns) |-> c],
                                LAMBDA c : ~HasYearToken(df.columns[c]))

(* The cells of the year-bearing columns that hold a number *)
NumberCells(df) ==
    {rc \in (1..Len(df.rows)) \X Range(YearBearing(df)) :
        _clean_numeric_value(df.rows[rc[1]][rc[2]]) # <<>>}

(* C22: for a table with year-bearing columns, every cell of a row and a   *)
(* year-bearing column that holds a number gives exactly one record, with  *)
(* the dataset, the year of the column and the number; every column that   *)
(* is not year-bearing is on each record of the row as meta; no column of  *)
(* the row is lost.                                                        *)
C22_CellsToRecords ==
    standardize_runs >= 1 =>
        \A d \in 1..Len(datasets) :
            HasYearLabel(datasets[d].df) =>
                /\ Len(RecordsOf(datasets[d].name)) = Cardinality(NumberCells(datasets[d].df))
                /\ \A i \in 1..Len(RecordsOf(datasets[d].name)) :
                      \E rc \in NumberCells(datasets[d].df) :
                          /\ RecordsOf(datasets[d].name)[i].year =
                                _extract_year(datasets[d].df.columns[rc[2]])
                          /\ <<RecordsOf(datasets[d].name)[i].value>> =
                                _clean_numeric_value(datasets[d].df.rows[rc[1]][rc[2]])
                          /\ RecordsOf(datasets[d].name)[i].meta =
                                [m \in 1..Len(NotYearBearing(datasets[d].df)) |->
                                    datasets[d].df.rows[rc[1]][NotYearBearing(datasets[d].df)[m]]]

(* The number a cell holds after commas and blanks are taken out of its    *)
(* text: <<n>>, or <<>> for a missing cell and for text that is no number  *)
NumberIn(cell) ==
    IF cell.kind = "num" THEN <<cell.n>>
    ELSE IF cell.kind = "nan" THEN <<>>
    ELSE LET digits == SelectSeq(cell.chars, LAMBDA c : c \notin {",", " "})
         IN IF digits # <<>> /\ \A i \in 1..Len(digits) : digits[i] \in Digits
            THEN <<ToInt(digits)>> ELSE <<>>

(* C23: every record of the unified table has a year in [1990, 2030] and a *)
(* number as value: it comes from a cell that holds a number after commas  *)
(* and blanks are stripped; missing cells and cells that hold no number    *)
(* give no record.                                                         *)
C23_YearAndValue ==
    (standardize_runs >= 1 /\ preprocessor_unified_data # <<>>) =>
        \A i \in 1..Len(preprocessor_unified_data[1]) :
            /\ preprocessor_unified_data[1][i].year \in MinYear..MaxYear
            /\ \E d \in 1..Len(datasets) :
                  /\ datasets[d].name = preprocessor_unified_data[1][i].dataset
                  /\ \E r \in 1..Len(datasets[d].df.rows), c \in 1..Len(datasets[d].df.columns) :
                        /\ HasYearToken(datasets[d].df.columns[c])
                        /\ NumberIn(datasets[d].df.rows[r][c])
                              = <<preprocessor_unified_data[1][i].value>>

(* A cell with a thousands separator gave the record of 2021 with the      *)
(* number 1234, and the missing cell of 2020 gave no record                *)
C23_Witness ==
    /\ standardize_runs >= 1
    /\ datasets[1] = Dataset("emission", EmissionTable(StrCell(<<"1", ",", "2", "3", "4">>), NaN))
    /\ Len(RecordsOf("emission")) = 1
    /\ RecordsOf("emission")[1].year = 2021
    /\ RecordsOf("emission")[1].value = 1234

(* The IQR rule: v lies outside [Q1 - 1.5 IQR, Q3 + 1.5 IQR] of the values *)
OutsideFences(v, values) ==
    LET ascending == SortRows(values, values)
        first == QuantileTimes4(ascending, 1)
        third == QuantileTimes4(ascending, 3)
    IN \/ 8 * v < 2 * first - 3 * (third - first)
       \/ 8 * v > 2 * third + 3 * (third - first)

(* C24: the is_outlier flag of a record is the IQR rule over the values of *)
(* the records of its own dataset, not of all datasets together, and the   *)
(* flagged records stay in the unified table.                              *)
C24_OutlierPerDataset ==
    (standardize_runs >= 1 /\ preprocessor_unified_data # <<>>) =>
        /\ \A i \in 1..Len(preprocessor_unified_data[1]) :
              preprocessor_unified_data[1][i].is_outlier =
                 OutsideFences(preprocessor_unified_data[1][i].value,
                    [k \in 1..Len(RecordsOf(preprocessor_unified_data[1][i].dataset)) |->
                        RecordsOf(preprocessor_unified_data[1][i].dataset)[k].value])
        /\ \A d \in 1..Len(datasets) :
              Len(RecordsOf(datasets[d].name)) = Cardinality(NumberCells(datasets[d].df))

----------------------------------------------------------------------------
(* Loading *)

(* The first column of a table holds whole numbers of 1990..2030 *)
InventoryLayout(df) ==
    /\ Len(df.columns) >= 2
    /\ df.rows # <<>>
    /\ \A r \in 1..Len(df.rows) :
          /\ df.rows[r][1].kind = "num"
          /\ MinYear <= df.rows[r][1].n /\ df.rows[r][1].n <= MaxYear
          /\ df.rows[r][2].kind = "num"

(* The dataset stored under a name: <<>> when there is none *)
DatasetOf(name) == SelectSeq(datasets, LAMBDA d : d.name = name)

(* C25: a table of the inventory layout, with the years in its first       *)
(* column, is not transposed, and its first two columns are the year and   *)
(* the value of records of the unified table, one record for each row.     *)
C25_InventoryLayout ==
    standardize_runs >= 1 =>
        \A f \in 1..Len(files) :
            (files[f].name = InventoryName /\ files[f].content = "table"
                /\ InventoryLayout(files[f].df)) =>
               /\ DatasetOf(InventoryName) # <<>>
               /\ DatasetOf(InventoryName)[1].df.rows = files[f].df.rows
               /\ Len(RecordsOf(InventoryName)) = Len(files[f].df.rows)
               /\ \A r \in 1..Len(files[f].df.rows) :
                     \E i \in 1..Len(RecordsOf(InventoryName)) :
                         /\ RecordsOf(InventoryName)[i].year = files[f].df.rows[r][1].n
                         /\ RecordsOf(InventoryName)[i].value = files[f].df.rows[r][2].n

(* The file gives a table that can be analyzed *)
Sound(file) ==
    /\ file.content = "table"
    /\ ~AnalyzeDatasetRaises(_load_csv_with_encoding(file).df[1])

(* C26: a file that fails to load or to analyze is left out, and every     *)
(* other file is analyzed and normalized: its table is stored, in the      *)
(* order of the files, and after standardize_data it has its records in    *)
(* the unified table or is in the metadata.                                *)
C26_PartialFailure ==
    /\ analyze_runs >= 1 =>
          /\ Len(datasets) = Cardinality({f \in 1..Len(files) : Sound(files[f])})
          /\ \A f \in 1..Len(files) :
                /\ ~Sound(files[f]) => DatasetOf(files[f].name) = <<>>
                /\ Sound(files[f]) =>
                      DatasetOf(files[f].name) =
                         <<Dataset(files[f].name, _load_csv_with_encoding(files[f]).df[1])>>
          /\ \A i, j \in 1..Len(datasets) :
                i < j => \E f, g \in 1..Len(files) :
                            f < g /\ files[f].name = datasets[i].name
                                  /\ files[g].name = datasets[j].name
    /\ standardize_runs >= 1 =>
          \A d \in 1..Len(datasets) :
              /\ Len(RecordsOf(datasets[d].name)) = Cardinality(NumberCells(datasets[d].df))
              /\ ~_analyze_dataset(datasets[d].df).has_year_columns
                    => datasets[d].name \in DOMAIN metadata

(* A file that does not parse and an inventory whose analysis raises came  *)
(* before the allocation table, which has its six records                  *)
C26_Witness ==
    /\ standardize_runs >= 1
    /\ files = <<File("company", "empty", NoTable),
                 File(InventoryName, "table", InventoryTwice),
                 File("allocation", "table", AllocationTable)>>
    /\ Len(datasets) = 1
    /\ Len(RecordsOf("allocation")) = 6

----------------------------------------------------------------------------
(* The summary of the ledger *)

(* C27: the summary has the number of records of the history, the share    *)
(* of the successful ones, and the five records that arrived last, in the  *)
(* order of arrival; for an empty history it is 0, 0 and no records.       *)
C27_ExecutionSummary ==
    \E summary \in {get_execution_summary(execution_history)} :
       /\ summary.total_executions = Len(execution_history)
       /\ summary.success_rate.den > 0
       /\ summary.success_rate.num * Len(execution_history)
             = Cardinality({i \in 1..Len(execution_history) : execution_history[i].success})
                  * summary.success_rate.den
       /\ Len(summary.recent_executions)
             = IF Len(arrived) > RecentExecutions THEN RecentExecutions ELSE Len(arrived)
       /\ \A k \in 1..Len(summary.recent_executions) :
             summary.recent_executions[k]
                = arrived[Len(arrived) - Len(summary.recent_executions) + k]
       /\ execution_history = <<>> =>
             /\ summary.total_executions = 0
             /\ summary.success_rate.num = 0
             /\ summary.recent_executions = <<>>

(* More than five records, successes and failures among them, and the      *)
(* five oldest are not the five that arrived last                          *)
C27_Witness ==
    /\ Len(execution_history) > RecentExecutions
    /\ \E i, j \in 1..Len(execution_history) :
          execution_history[i].success /\ ~execution_history[j].success
    /\ get_execution_summary(execution_history).recent_executions
          # SubSeq(execution_history, 1, RecentExecutions)
    /\ get_execution_summary(execution_history).success_rate.den > 1

----------------------------------------------------------------------------
(* The steps of one question *)

(* The place of a stage in the course of ask *)
StageRank(s) ==
    CASE s = "asked" -> 0
      [] s = "analyzed" -> 1
      [] s = "visualization decided" -> 2
      [] s = "generated" -> 3
      [] s = "executed" -> 4
      [] s = "analysis done" -> 5
      [] s = "visualized" -> 6
      [] s = "returned" -> 7

(* C28: within one ask the question is classified first, the program is    *)
(* generated from the intent after that, and execute_code is called with   *)
(* the generated program, validates it and runs it only when it is safe;   *)
(* a visualization is made and returned only when needs_visualization is   *)
(* true and the analysis succeeded with data, and is null otherwise.       *)
C28_StepsInOrder ==
    [][/\ StageRank(stage') > StageRank(stage)
       /\ intent' # intent => stage = "asked"
       /\ analysis_code' # analysis_code =>
             /\ stage = "visualization decided"
             /\ intent # NoIntent
             /\ analysis_code' = generate_analysis_code(intent, unified_data.cols)
       /\ calls' # calls =>
             /\ stage = "generated"
             /\ last_code' = analysis_code
             /\ verdict' = validate_code(analysis_code)
             /\ ran' # ran => verdict'.safe
       /\ ran' # ran => calls' # calls
       /\ visualization' # "" =>
             /\ needs_viz.needed
             /\ analysis_result.success
             /\ analysis_result.data # None
       /\ reply'.visualization # "" =>
             /\ visualization # ""
             /\ needs_viz.needed
             /\ analysis_result.success
             /\ analysis_result.data # None]_vars

(* The question asked for a graph, the generated program ran to a result   *)
(* and the image was returned with the answer                              *)
C28_Witness ==
    /\ stage = "returned"
    /\ needs_viz.needed
    /\ calls = 1
    /\ ran >= 1
    /\ ret.success
    /\ analysis_result.success
    /\ reply.visualization = "image"

----------------------------------------------------------------------------
(* Two threads and one ledger *)

(* C29: when two calls of execute_code on the one executor interleave and  *)
(* both have returned, the history holds the record of each call that      *)
(* saved one, and at most 100 records.                                     *)
C29_NoRecordLost ==
    (\A t \in DOMAIN threads : threads[t].pc = "done") =>
        /\ \A t \in DOMAIN threads :
              threads[t].entry # <<>> =>
                 \E i \in 1..Len(execution_history) :
                     execution_history[i] = threads[t].entry[1]
        /\ Len(execution_history) <= HistoryLimit

----------------------------------------------------------------------------
(* The one agent *)

(* C30: every construction that returns gives the same object; once an     *)
(* initialization has completed, no construction loads the data or makes   *)
(* an executor again, and the ledger is kept; a construction that finds    *)
(* the initialization not completed runs it again.                         *)
C30_OneInstance ==
    [][/\ allocated' <= 1
       /\ \A i \in 1..Len(constructed') : constructed'[i] \in {0, _instance'}
       /\ _initialized =>
             /\ _initialized'
             /\ loads' = loads
             /\ executors' = executors
             /\ constructed' # constructed =>
                   /\ Last(constructed') = _instance
                   /\ execution_history' = execution_history
       /\ (~_initialized /\ constructed' # constructed) =>
             \/ Last(constructed') = 0 /\ ~_initialized'
             \/ /\ Last(constructed') = _instance'
                /\ _initialized'
                /\ loads' = loads + 1
                /\ executors' = executors + 1]_vars

(* The first construction failed in the data load, the second completed    *)
(* and the third found the agent initialized, with a record in its ledger  *)
C30_Witness ==
    /\ constructed = <<0, 1, 1>>
    /\ loads = 2
    /\ executors = 2
    /\ _initialized
    /\ Len(execution_history) = MaxCalls

====
